---------------------------- MODULE Spec2Model ----------------------------
(***************************************************************************)
(* Geometry Plane proof engine: statements, structural equality, the       *)
(* reason catalog, occurrence-based substitution, the numeric checker and  *)
(* verifyStep (src/client/proof).                                          *)
(*                                                                         *)
(* Conventions.                                                            *)
(*   - A point name is a one-letter string; NameOrder lists the names in   *)
(*     the order of the JavaScript string comparison `<`.                  *)
(*   - A JavaScript array is a sequence; reading past its end gives        *)
(*     Undefined (Nth).                                                    *)
(*   - Statement.constant is <<>> when absent and <<n>> when it is n.      *)
(*   - A prerequisite ref is <<"given">> or <<"step", n>>.                 *)
(*   - A string key built with join(',') / template literals is the tuple  *)
(*     of its parts; the empty key '' is <<>>.                             *)
(*   - A result is [threw, ok, message]; threw = TRUE is a TypeError       *)
(*     escaping the call.  A message is [text, arg]: the fixed text and    *)
(*     the interpolated part.                                              *)
(*   - Coordinates are integers, so every tolerance test of the numeric    *)
(*     checker is decided exactly in integer arithmetic.                   *)
(***************************************************************************)
EXTENDS Integers, Sequences, FiniteSets, TLC

VARIABLES snapshot, taskGivens, proofSteps, call, ret,
          state, clickDelayTimeout, operationLog, requests, serverLog, budget

\* the plane: its state object, the pointer position of the delayed click
\* (<<>> when no timer runs), the in-memory operation log, the POST /log
\* requests under way and the lines of logs/user_actions.log; budget is the
\* number of entries the handlers may still log
plane == <<state, clickDelayTimeout, operationLog, requests, serverLog, budget>>

vars == <<snapshot, taskGivens, proofSteps, call, ret, state, clickDelayTimeout,
          operationLog, requests, serverLog, budget>>

\* state as the module sets it, before init()
InitialState ==
  [objectEntries |-> <<>>, currentTool |-> "point", pendingPoints |-> <<>>,
   pendingIntersectionObjects |-> <<>>, selectedObjectIndex |-> <<>>]
\* (selectedObjectIndex is <<>> for null and <<i>> for the 0-based index i)

\* The plane of a specification that only calls the proof engine.
PlaneUntouched ==
  /\ state = InitialState
  /\ clickDelayTimeout = <<>>
  /\ operationLog = <<>>
  /\ requests = {}
  /\ serverLog = <<>>
  /\ budget = 0

-----------------------------------------------------------------------------
(* Names and arrays *)

Undefined == "undefined"

NameOrder == <<"A", "B", "C", "D", "E", "F", "M", "N", "P", "X", "Y", "Z">>

Rank(n) == CHOOSE i \in 1..Len(NameOrder) : NameOrder[i] = n

\* a < b on one-letter names
NameLess(a, b) == Rank(a) < Rank(b)

\* arr[i] with a 0-based index i
Nth(arr, i) == IF i + 1 <= Len(arr) THEN arr[i + 1] ELSE Undefined

\* arr.slice(from, from + 3) read element by element
Triple(arr, from) == <<Nth(arr, from), Nth(arr, from + 1), Nth(arr, from + 2)>>

-----------------------------------------------------------------------------
(* Statements *)

NoConstant == <<>>

Stmt(kind, names) == [kind |-> kind, pointNames |-> names, constant |-> NoConstant]

StmtC(kind, names, c) == [kind |-> kind, pointNames |-> names, constant |-> <<c>>]

STATEMENT_POINT_COUNTS ==
  [k \in {"points-distinct", "point-on-line", "line-equals-line", "rays-form-line",
          "unique-line", "intersection-equals", "angle-equals-constant",
          "angle-equals-angle", "angle-less-than-angle", "angle-greater-than-angle",
          "angle-leq-angle", "angle-geq-angle", "segment-equals-segment",
          "triangles-congruent", "triangle-angles-sum-180",
          "point-midpoint-of-segment"} |->
     CASE k \in {"points-distinct", "unique-line"} -> 2
       [] k \in {"point-on-line", "rays-form-line", "angle-equals-constant",
                 "triangle-angles-sum-180", "point-midpoint-of-segment"} -> 3
       [] k \in {"line-equals-line", "segment-equals-segment"} -> 4
       [] k = "intersection-equals" -> 5
       [] OTHER -> 6]

TRIANGLE_SECOND_PERMS ==
  << <<0, 1, 2>>, <<0, 2, 1>>, <<1, 0, 2>>, <<1, 2, 0>>, <<2, 0, 1>>, <<2, 1, 0>> >>

\* [names[0], names[1], names[2]] and the second triangle reordered by perm
Tri1(names) == <<names[1], names[2], names[3]>>

Tri2(names, perm) == <<names[4 + perm[1]], names[4 + perm[2]], names[4 + perm[3]]>>

\* the text of a constant, or the placeholder dot
ConstantText(s) == IF s.constant = NoConstant THEN "." ELSE ToString(s.constant[1])

statementToString(s) ==
  LET p(i) == Nth(s.pointNames, i)
      cmp(op) == <<"ang", p(0), p(1), p(2), op, "ang", p(3), p(4), p(5)>>
  IN CASE s.kind = "points-distinct" -> <<p(0), "neq", p(1)>>
       [] s.kind = "point-on-line" -> <<p(0), "in", "line", p(1), p(2)>>
       [] s.kind = "line-equals-line" -> <<"line", p(0), p(1), "=", "line", p(2), p(3)>>
       [] s.kind = "rays-form-line" ->
            <<"ray", p(0), p(1), "cup", "ray", p(2), p(1), "=", "line", p(0), p(1)>>
       [] s.kind = "unique-line" -> <<"exists1", "line", "through", p(0), ",", p(1)>>
       [] s.kind = "intersection-equals" ->
            <<p(0), "=", "line", p(1), p(2), "cap", "line", p(3), p(4)>>
       [] s.kind = "angle-equals-constant" ->
            <<"ang", p(0), p(1), p(2), "=", ConstantText(s), "deg">>
       [] s.kind = "angle-equals-angle" -> cmp("=")
       [] s.kind = "angle-less-than-angle" -> cmp("<")
       [] s.kind = "angle-greater-than-angle" -> cmp(">")
       [] s.kind = "angle-leq-angle" -> cmp("leq")
       [] s.kind = "angle-geq-angle" -> cmp("geq")
       [] s.kind = "segment-equals-segment" -> <<p(0), p(1), "=", p(2), p(3)>>
       [] s.kind = "triangles-congruent" ->
            <<"tri", p(0), p(1), p(2), "cong", "tri", p(3), p(4), p(5)>>
       [] s.kind = "triangle-angles-sum-180" ->
            <<"angles", "of", "tri", p(0), p(1), p(2), "sum", "to", "180", "deg">>
       [] s.kind = "point-midpoint-of-segment" ->
            <<p(0), "is", "midpoint", "of", p(1), p(2)>>
       [] OTHER -> <<s.kind>>

-----------------------------------------------------------------------------
(* Structural equality *)

EmptyKey == <<>>

statementsEqual(a, b) ==
  /\ a.kind = b.kind
  /\ Len(a.pointNames) = Len(b.pointNames)
  /\ \A i \in 1..Len(a.pointNames) : a.pointNames[i] = b.pointNames[i]

\* x < y for two strings "p,q" of one-letter names
PairLess(x, y) == NameLess(x[1], y[1]) \/ (x[1] = y[1] /\ NameLess(x[2], y[2]))

\* [a < b ? a : b, a < b ? b : a].join(',')
SortedPair(a, b) == IF NameLess(a, b) THEN <<a, b>> ELSE <<b, a>>

segmentStatementKeyUnsorted(s) ==
  IF s.kind # "segment-equals-segment" \/ Len(s.pointNames) < 4 THEN EmptyKey
  ELSE LET seg1 == <<s.pointNames[1], s.pointNames[2]>>
           seg2 == <<s.pointNames[3], s.pointNames[4]>>
       IN IF PairLess(seg1, seg2) THEN <<seg1, seg2>> ELSE <<seg2, seg1>>

segmentStatementKey(s) ==
  IF s.kind # "segment-equals-segment" \/ Len(s.pointNames) < 4 THEN EmptyKey
  ELSE LET seg1 == SortedPair(s.pointNames[1], s.pointNames[2])
           seg2 == SortedPair(s.pointNames[3], s.pointNames[4])
           first == IF PairLess(seg1, seg2) THEN seg1 ELSE seg2
           second == IF PairLess(seg1, seg2) THEN seg2 ELSE seg1
       IN <<first, second>>

\* `${p1}:${other}` with other the two arm ends in order
angleTripleKey(p0, p1, p2) ==
  <<p1, IF NameLess(p0, p2) THEN <<p0, p2>> ELSE <<p2, p0>> >>

\* k1 < k2 for two angle triple keys
TripleKeyLess(k1, k2) == NameLess(k1[1], k2[1]) \/ (k1[1] = k2[1] /\ PairLess(k1[2], k2[2]))

angleConstantStatementKey(s) ==
  IF s.kind # "angle-equals-constant" \/ Len(s.pointNames) < 3 THEN EmptyKey
  ELSE angleTripleKey(s.pointNames[1], s.pointNames[2], s.pointNames[3])

angleStatementKey(s) ==
  IF s.kind # "angle-equals-angle" \/ Len(s.pointNames) < 6 THEN EmptyKey
  ELSE LET k1 == angleTripleKey(s.pointNames[1], s.pointNames[2], s.pointNames[3])
           k2 == angleTripleKey(s.pointNames[4], s.pointNames[5], s.pointNames[6])
       IN IF TripleKeyLess(k1, k2) THEN <<k1, k2>> ELSE <<k2, k1>>

\* equality of statements as sets of names of one kind
statementsEqualUnordered(a, b) ==
  /\ a.kind = b.kind
  /\ {a.pointNames[i] : i \in 1..Len(a.pointNames)} = {b.pointNames[i] : i \in 1..Len(b.pointNames)}

statementsEqualStructural(a, b) ==
  IF a.kind # b.kind THEN FALSE
  ELSE IF a.kind = "segment-equals-segment"
         THEN segmentStatementKey(a) = segmentStatementKey(b)
  ELSE IF a.kind = "angle-equals-constant"
         THEN angleConstantStatementKey(a) = angleConstantStatementKey(b)
  ELSE IF a.kind = "angle-equals-angle"
         THEN angleStatementKey(a) = angleStatementKey(b)
  ELSE statementsEqual(a, b)

-----------------------------------------------------------------------------
(* Reason catalog *)

REASON_GIVEN == "given"

REASON_DEFINITION == "definition"

Reason(id, premises, conclusion) ==
  [id |-> id, premises |-> premises, conclusion |-> conclusion]

\* the two premises and the conclusion of an ordering chain of the given kind
ChainReason(id, kind) ==
  Reason(id, <<Stmt(kind, <<"A", "M", "B", "C", "N", "D">>),
               Stmt(kind, <<"C", "N", "D", "E", "P", "F">>)>>,
         Stmt(kind, <<"A", "M", "B", "E", "P", "F">>))

REASONS ==
  << Reason(REASON_GIVEN, <<>>, Stmt("points-distinct", <<"A", "B">>)),
     Reason(REASON_DEFINITION, <<>>, Stmt("point-on-line", <<"P", "A", "B">>)),
     Reason("line-determination", <<Stmt("points-distinct", <<"A", "B">>)>>,
            Stmt("unique-line", <<"A", "B">>)),
     Reason("point-on-line-same-line", <<Stmt("point-on-line", <<"C", "A", "B">>)>>,
            Stmt("line-equals-line", <<"A", "C", "A", "B">>)),
     Reason("opposite-rays-form-line", <<Stmt("rays-form-line", <<"A", "B", "C">>)>>,
            Stmt("rays-form-line", <<"A", "B", "C">>)),
     Reason("reflexivity", <<>>, Stmt("segment-equals-segment", <<"A", "B", "A", "B">>)),
     Reason("transitivity-equals",
            <<Stmt("angle-equals-constant", <<"A", "M", "C">>),
              Stmt("angle-equals-constant", <<"A", "M", "B">>)>>,
            Stmt("angle-equals-angle", <<"A", "M", "C", "A", "M", "B">>)),
     ChainReason("transitivity-less", "angle-less-than-angle"),
     ChainReason("transitivity-greater", "angle-greater-than-angle"),
     ChainReason("transitivity-leq", "angle-leq-angle"),
     ChainReason("transitivity-geq", "angle-geq-angle"),
     Reason("sas",
            <<Stmt("segment-equals-segment", <<"A", "M", "A", "M">>),
              Stmt("segment-equals-segment", <<"B", "M", "M", "C">>),
              Stmt("angle-equals-angle", <<"A", "M", "B", "A", "M", "C">>)>>,
            Stmt("triangles-congruent", <<"A", "M", "B", "A", "M", "C">>)),
     Reason("asa",
            <<Stmt("angle-equals-angle", <<"C", "A", "B", "F", "D", "E">>),
              Stmt("segment-equals-segment", <<"A", "B", "D", "E">>),
              Stmt("angle-equals-angle", <<"A", "B", "C", "D", "E", "F">>)>>,
            Stmt("triangles-congruent", <<"A", "B", "C", "D", "E", "F">>)),
     Reason("aas",
            <<Stmt("angle-equals-angle", <<"C", "A", "B", "F", "D", "E">>),
              Stmt("angle-equals-angle", <<"A", "B", "C", "D", "E", "F">>),
              Stmt("segment-equals-segment", <<"B", "C", "E", "F">>)>>,
            Stmt("triangles-congruent", <<"A", "B", "C", "D", "E", "F">>)),
     Reason("sss",
            <<Stmt("segment-equals-segment", <<"A", "B", "D", "E">>),
              Stmt("segment-equals-segment", <<"B", "C", "E", "F">>),
              Stmt("segment-equals-segment", <<"C", "A", "F", "D">>)>>,
            Stmt("triangles-congruent", <<"A", "B", "C", "D", "E", "F">>)),
     Reason("hl",
            <<Stmt("angle-equals-constant", <<"A", "B", "C">>),
              Stmt("angle-equals-constant", <<"D", "E", "F">>),
              Stmt("segment-equals-segment", <<"A", "C", "D", "F">>),
              Stmt("segment-equals-segment", <<"A", "B", "D", "E">>)>>,
            Stmt("triangles-congruent", <<"A", "B", "C", "D", "E", "F">>)),
     Reason("from-congruence",
            <<Stmt("triangles-congruent", <<"A", "M", "B", "A", "M", "C">>)>>,
            Stmt("segment-equals-segment", <<"A", "B", "A", "C">>)),
     Reason("sum-triangle-angles", <<>>, Stmt("triangle-angles-sum-180", <<"A", "B", "C">>)),
     Reason("thales", <<>>, StmtC("angle-equals-constant", <<"A", "B", "C">>, 90)) >>

ReasonIds == {REASONS[i].id : i \in 1..Len(REASONS)}

\* REASONS.find((r) => r.id === reasonId); only called for a catalogued id
FindReason(reasonId) ==
  REASONS[CHOOSE i \in 1..Len(REASONS) : REASONS[i].id = reasonId]

-----------------------------------------------------------------------------
(* Occurrence-based substitution *)

\* The placeholder alphabet of the catalog's templates.
Placeholders == {"A", "B", "C", "D", "E", "F", "M", "N", "P"}

\* new Map<string, number>()
EmptyUsed == [ph \in Placeholders |-> 0]

\* Index (1-based) of the occurrence number k (0-based) of ph in the
\* conclusion template, 0 when there is none: the inner loop.
OccurrenceIndex(conclusionPointNames, ph, k) ==
  LET hits == {i \in 1..Len(conclusionPointNames) :
                 /\ conclusionPointNames[i] = ph
                 /\ Cardinality({j \in 1..(i - 1) : conclusionPointNames[j] = ph}) = k}
  IN IF hits = {} THEN 0 ELSE CHOOSE i \in hits : TRUE

RECURSIVE SubstituteFrom(_, _, _, _, _, _)
\* The outer loop from premise position j on; found = FALSE is `return null`.
SubstituteFrom(premise, j, conclusionPointNames, outcomePointNames, used, pointNames) ==
  IF j > Len(premise.pointNames)
    THEN [found |-> TRUE, used |-> used,
          statement |-> Stmt(premise.kind, pointNames)]
    ELSE LET ph == premise.pointNames[j]
             k == used[ph]
             i == OccurrenceIndex(conclusionPointNames, ph, k)
         IN IF i = 0
              THEN [found |-> FALSE, used |-> used, statement |-> Stmt(premise.kind, <<>>)]
              ELSE SubstituteFrom(premise, j + 1, conclusionPointNames, outcomePointNames,
                                  [used EXCEPT ![ph] = k + 1],
                                  Append(pointNames, Nth(outcomePointNames, i - 1)))

RECURSIVE SubstituteFromFirstOnly(_, _, _, _, _, _)
SubstituteFromFirstOnly(premise, j, conclusionPointNames, outcomePointNames, used, pointNames) ==
  IF j > Len(premise.pointNames)
    THEN [found |-> TRUE, used |-> used,
          statement |-> Stmt(premise.kind, pointNames)]
    ELSE LET ph == premise.pointNames[j]
             i == OccurrenceIndex(conclusionPointNames, ph, 0)
         IN IF i = 0
              THEN [found |-> FALSE, used |-> used, statement |-> Stmt(premise.kind, <<>>)]
              ELSE SubstituteFromFirstOnly(premise, j + 1, conclusionPointNames,
                                           outcomePointNames, used,
                                           Append(pointNames, Nth(outcomePointNames, i - 1)))

substitutePremiseByOccurrenceFirstOnly(premise, conclusionPointNames, outcomePointNames, used) ==
  SubstituteFromFirstOnly(premise, 1, conclusionPointNames, outcomePointNames, used, <<>>)

\* Returns [found, used, statement]: the returned statement (found = FALSE
\* for null) and the counter as the call leaves it.
substitutePremiseByOccurrence(premise, conclusionPointNames, outcomePointNames, used) ==
  SubstituteFrom(premise, 1, conclusionPointNames, outcomePointNames, used, <<>>)

-----------------------------------------------------------------------------
(* Resolved context *)

\* String.prototype.trim on the names a label can hold here
trim(name) ==
  CASE name = " A" -> "A"
    [] name = "A " -> "A"
    [] name = " " -> ""
    [] OTHER -> name

Point(x, y, name) == [geom |-> [type |-> "point", x |-> x, y |-> y], name |-> name]

\* entry.geom.type === 'point' && entry.name != null && entry.name.trim() !== ''
Indexed(entry) ==
  /\ entry.geom.type = "point"
  /\ entry.name # Undefined
  /\ trim(entry.name) # ""

\* new Map(): no name has a point
NoPoints == [n \in {} |-> [x |-> 0, y |-> 0]]

RECURSIVE PointsFrom(_, _, _)
\* The loop of resolveContext from entry i on: points.set(name, ...) unless
\* points.has(name).
PointsFrom(snap, i, points) ==
  IF i > Len(snap) THEN points
  ELSE IF Indexed(snap[i]) /\ trim(snap[i].name) \notin DOMAIN points
    THEN PointsFrom(snap, i + 1,
                    points @@ (trim(snap[i].name) :> [x |-> snap[i].geom.x, y |-> snap[i].geom.y]))
  ELSE PointsFrom(snap, i + 1, points)

\* resolveContext with the entries read from the last to the first.
resolveContextLastWins(snap) ==
  [points |-> PointsFrom([i \in 1..Len(snap) |-> snap[Len(snap) + 1 - i]], 1, NoPoints)]

\* The points map.
resolveContext(snap) == [points |-> PointsFrom(snap, 1, NoPoints)]

\* ctx.points.has(n)
Has(ctx, n) == n \in DOMAIN ctx.points

\* hypot(q - p)^2
Dist2(p, q) == (q.x - p.x) * (q.x - p.x) + (q.y - p.y) * (q.y - p.y)

\* <<>> is null, <<l>> the line l.  hypot < 1e-12 on integers is Dist2 = 0.
lineThrough(ctx, a, b) ==
  IF ~Has(ctx, a) \/ ~Has(ctx, b) THEN <<>>
  ELSE IF Dist2(ctx.points[a], ctx.points[b]) = 0 THEN <<>>
  ELSE << [x1 |-> ctx.points[a].x, y1 |-> ctx.points[a].y,
           x2 |-> ctx.points[b].x, y2 |-> ctx.points[b].y] >>

rayFromThrough(ctx, a, b) == lineThrough(ctx, a, b)

\* dx * (y - y1) - dy * (x - x1)
Cross(l, x, y) == (l.x2 - l.x1) * (y - l.y1) - (l.y2 - l.y1) * (x - l.x1)

Len2(l) == (l.x2 - l.x1) * (l.x2 - l.x1) + (l.y2 - l.y1) * (l.y2 - l.y1)

\* The squared distance as the fraction num / den.
distToLine(x, y, l) ==
  IF Len2(l) = 0
    THEN [num |-> (x - l.x1) * (x - l.x1) + (y - l.y1) * (y - l.y1), den |-> 1]
    ELSE [num |-> Cross(l, x, y) * Cross(l, x, y), den |-> Len2(l)]

\* d <= POINT_TOL (0.5) for a squared distance d
WithinPointTol(d) == 4 * d.num <= d.den

\* d <= TOL (1e-6) for a squared distance d of integer points: d = 0
WithinTol(d) == d.num = 0

pointOnLine(px, py, l) == WithinPointTol(distToLine(px, py, l))

\* lineKey(l1) === lineKey(l2): the unit direction up to sign and the offset,
\* rounded to 1e-6, agree exactly when both points of l2 lie on l1.
sameLine(l1, l2) ==
  IF Len2(l1) = 0 \/ Len2(l2) = 0
    THEN Len2(l1) = 0 /\ Len2(l2) = 0 /\ l1.x1 = l2.x1 /\ l1.y1 = l2.y1
    ELSE Cross(l1, l2.x1, l2.y1) = 0 /\ Cross(l1, l2.x2, l2.y2) = 0

areOppositeRays(ray1, ray2) ==
  LET d1x == ray1.x2 - ray1.x1
      d1y == ray1.y2 - ray1.y1
      d2x == ray2.x2 - ray2.x1
      d2y == ray2.y2 - ray2.y1
  IN /\ Len2(ray1) # 0 /\ Len2(ray2) # 0
     /\ d1x * d2y - d1y * d2x = 0
     /\ d1x * d2x + d1y * d2y < 0
     /\ WithinTol(distToLine(ray2.x1, ray2.y1, ray1))
     /\ WithinTol(distToLine(ray1.x1, ray1.y1, ray2))

-----------------------------------------------------------------------------
(* Numeric checker *)

\* The angle at m between the rays to a and b as [dot, cross, n]:
\* cos = dot / sqrt(n), sin = cross / sqrt(n); a zero-length arm gives 0 degrees.
angleAtVertexDeg(a, m, b) ==
  LET ux == a.x - m.x
      uy == a.y - m.y
      vx == b.x - m.x
      vy == b.y - m.y
      cr == ux * vy - uy * vx
  IN IF Dist2(m, a) = 0 \/ Dist2(m, b) = 0
       THEN [dot |-> 1, cross |-> 0, n |-> 1]
       ELSE [dot |-> ux * vx + uy * vy, cross |-> IF cr < 0 THEN -cr ELSE cr,
             n |-> Dist2(m, a) * Dist2(m, b)]

\* cos and sin of a whole number of degrees, in thousandths
DegTable ==
  [t \in {0, 30, 45, 60, 90, 120, 135, 180} |->
     CASE t = 0 -> [cos |-> 1000, sin |-> 0]
       [] t = 30 -> [cos |-> 866, sin |-> 500]
       [] t = 45 -> [cos |-> 707, sin |-> 707]
       [] t = 60 -> [cos |-> 500, sin |-> 866]
       [] t = 90 -> [cos |-> 0, sin |-> 1000]
       [] t = 120 -> [cos |-> -500, sin |-> 866]
       [] t = 135 -> [cos |-> -707, sin |-> 707]
       [] OTHER -> [cos |-> -1000, sin |-> 0]]

\* Math.abs(deg1 - deg2) <= 5: cos(deg1 - deg2) >= cos 5, cos^2 5 = 0.9924
AnglesWithin5(a1, a2) ==
  LET c == a1.dot * a2.dot + a1.cross * a2.cross
  IN c >= 0 /\ c * c * 10000 >= 9924 * a1.n * a2.n

\* Math.abs(deg - target) <= 5 for a tabulated target
AngleWithin5Of(a, target) ==
  LET c == a.dot * DegTable[target].cos + a.cross * DegTable[target].sin
  IN c >= 0 /\ c * c >= 992404 * a.n

\* Math.abs(sqrt(p) - sqrt(q)) <= 0.01 for squared lengths p, q
LengthsWithinHundredth(p, q) ==
  LET l == 10000 * (p - q) * (p - q) - (p + q)
  IN IF l <= 0 THEN TRUE ELSE IF l > p + q THEN FALSE ELSE l * l <= 4 * p * q

\* distToSegment as a squared distance num / den
distToSegment(p, a, b) ==
  LET l == [x1 |-> a.x, y1 |-> a.y, x2 |-> b.x, y2 |-> b.y]
      t == (p.x - a.x) * (b.x - a.x) + (p.y - a.y) * (b.y - a.y)
  IN IF Len2(l) = 0 \/ t <= 0 THEN [num |-> Dist2(a, p), den |-> 1]
     ELSE IF t >= Len2(l) THEN [num |-> Dist2(b, p), den |-> 1]
     ELSE distToLine(p.x, p.y, l)

\* intersectLineLine and the distance test of the intersection to e
IntersectionNear(l1, l2, e) ==
  LET denom == (l1.x2 - l1.x1) * (l2.y2 - l2.y1) - (l1.y2 - l1.y1) * (l2.x2 - l2.x1)
      t == (l2.x1 - l1.x1) * (l2.y2 - l2.y1) - (l2.y1 - l1.y1) * (l2.x2 - l2.x1)
      dx == (l1.x1 - e.x) * denom + t * (l1.x2 - l1.x1)
      dy == (l1.y1 - e.y) * denom + t * (l1.y2 - l1.y1)
  IN denom # 0 /\ 4 * (dx * dx + dy * dy) <= denom * denom

\* the whole part of sqrt(n), between lo and hi
RECURSIVE RootBetween(_, _, _)
RootBetween(n, lo, hi) ==
  IF lo = hi THEN lo
  ELSE IF ((lo + hi + 1) \div 2) * ((lo + hi + 1) \div 2) <= n
    THEN RootBetween(n, (lo + hi + 1) \div 2, hi)
  ELSE RootBetween(n, lo, (lo + hi + 1) \div 2 - 1)

Root(n) == RootBetween(n, 0, 46340)

Gap(p, q) == IF p < q THEN q - p ELSE p - q

Least(p, q) == IF p < q THEN p ELSE q

\* a + r / d <= sqrt(q), for 0 <= r < d and root the whole part of sqrt(q)
AtMostRoot(a, r, d, q, root) ==
  IF a < root THEN TRUE
  ELSE IF a > root THEN FALSE
  ELSE 2 * d * a * r + r * r <= d * d * (q - a * a)

\* m <= d * sqrt(q)
AtMostRootTimes(m, d, q) == m <= 0 \/ AtMostRoot(m \div d, m % d, d, q, Root(q))

\* Math.abs(sqrt(p) - sqrt(q)) <= n / d for squared lengths p, q: d times
\* the longer is at most d times the shorter plus n, that is
\* d^2 |p - q| - n^2 <= 2 n d sqrt(min(p, q))
LengthsWithin(p, q, n, d) ==
  AtMostRootTimes(d * d * Gap(p, q) - n * n, 2 * n * d, Least(p, q))

\* segment-equals-segment with lengths compared for equality
segmentEqualsExactly(ctx, s, n, d) ==
  /\ \A i \in 0..3 : Has(ctx, Nth(s.pointNames, i))
  /\ Dist2(ctx.points[Nth(s.pointNames, 0)], ctx.points[Nth(s.pointNames, 1)])
       = Dist2(ctx.points[Nth(s.pointNames, 2)], ctx.points[Nth(s.pointNames, 3)])

\* The case segment-equals-segment of checkStatement; 0.01 is n / d in the
\* unit of the coordinates: 1 / 100 for whole coordinates, 10 / 1 for
\* coordinates counted in thousandths.
segmentEqualsSegment(ctx, s, n, d) ==
  /\ \A i \in 0..3 : Has(ctx, Nth(s.pointNames, i))
  /\ LengthsWithin(
       Dist2(ctx.points[Nth(s.pointNames, 0)], ctx.points[Nth(s.pointNames, 1)]),
       Dist2(ctx.points[Nth(s.pointNames, 2)], ctx.points[Nth(s.pointNames, 3)]),
       n, d)

\* checkStatement with a congruence checked by its number of names only.
checkStatementByCount(ctx, s) ==
  LET n(i) == Nth(s.pointNames, i)
      P(i) == ctx.points[n(i)]
      has(i) == Has(ctx, n(i))
  IN CASE s.kind \in {"points-distinct", "unique-line"} ->
            has(0) /\ has(1) /\ Dist2(P(0), P(1)) >= 1
       [] s.kind = "point-on-line" ->
            LET line == lineThrough(ctx, n(1), n(2))
            IN line # <<>> /\ has(0) /\ pointOnLine(P(0).x, P(0).y, line[1])
       [] s.kind = "line-equals-line" ->
            LET line1 == lineThrough(ctx, n(0), n(1))
                line2 == lineThrough(ctx, n(2), n(3))
            IN line1 # <<>> /\ line2 # <<>> /\ sameLine(line1[1], line2[1])
       [] s.kind = "rays-form-line" ->
            LET rayAB == rayFromThrough(ctx, n(0), n(1))
                rayCB == rayFromThrough(ctx, n(2), n(1))
                lineAB == lineThrough(ctx, n(0), n(1))
            IN /\ rayAB # <<>> /\ rayCB # <<>> /\ lineAB # <<>>
               /\ areOppositeRays(rayAB[1], rayCB[1])
               /\ sameLine(rayAB[1], lineAB[1]) /\ sameLine(rayCB[1], lineAB[1])
       [] s.kind = "intersection-equals" ->
            LET lineAB == lineThrough(ctx, n(1), n(2))
                lineCD == lineThrough(ctx, n(3), n(4))
            IN /\ lineAB # <<>> /\ lineCD # <<>> /\ has(0)
               /\ IntersectionNear(lineAB[1], lineCD[1], P(0))
       [] s.kind = "angle-equals-constant" ->
            /\ has(0) /\ has(1) /\ has(2)
            /\ \/ s.constant = NoConstant
               \/ AngleWithin5Of(angleAtVertexDeg(P(0), P(1), P(2)), s.constant[1])
       [] s.kind = "angle-equals-angle" ->
            /\ \A i \in 0..5 : has(i)
            /\ AnglesWithin5(angleAtVertexDeg(P(0), P(1), P(2)),
                             angleAtVertexDeg(P(3), P(4), P(5)))
       [] s.kind = "segment-equals-segment" ->
            /\ \A i \in 0..3 : has(i)
            /\ LengthsWithinHundredth(Dist2(P(0), P(1)), Dist2(P(2), P(3)))
       [] s.kind = "triangles-congruent" ->
            Len(s.pointNames) >= 6
       [] s.kind = "point-midpoint-of-segment" ->
            /\ has(0) /\ has(1) /\ has(2)
            /\ WithinPointTol(distToSegment(P(0), P(1), P(2)))
            /\ LengthsWithinHundredth(Dist2(P(0), P(1)), Dist2(P(0), P(2)))
       [] OTHER -> FALSE

checkStatement(ctx, s) ==
  LET n(i) == Nth(s.pointNames, i)
      P(i) == ctx.points[n(i)]
      has(i) == Has(ctx, n(i))
  IN CASE s.kind \in {"points-distinct", "unique-line"} ->
            has(0) /\ has(1) /\ Dist2(P(0), P(1)) >= 1
       [] s.kind = "point-on-line" ->
            LET line == lineThrough(ctx, n(1), n(2))
            IN line # <<>> /\ has(0) /\ pointOnLine(P(0).x, P(0).y, line[1])
       [] s.kind = "line-equals-line" ->
            LET line1 == lineThrough(ctx, n(0), n(1))
                line2 == lineThrough(ctx, n(2), n(3))
            IN line1 # <<>> /\ line2 # <<>> /\ sameLine(line1[1], line2[1])
       [] s.kind = "rays-form-line" ->
            LET rayAB == rayFromThrough(ctx, n(0), n(1))
                rayCB == rayFromThrough(ctx, n(2), n(1))
                lineAB == lineThrough(ctx, n(0), n(1))
            IN /\ rayAB # <<>> /\ rayCB # <<>> /\ lineAB # <<>>
               /\ areOppositeRays(rayAB[1], rayCB[1])
               /\ sameLine(rayAB[1], lineAB[1]) /\ sameLine(rayCB[1], lineAB[1])
       [] s.kind = "intersection-equals" ->
            LET lineAB == lineThrough(ctx, n(1), n(2))
                lineCD == lineThrough(ctx, n(3), n(4))
            IN /\ lineAB # <<>> /\ lineCD # <<>> /\ has(0)
               /\ IntersectionNear(lineAB[1], lineCD[1], P(0))
       [] s.kind = "angle-equals-constant" ->
            /\ has(0) /\ has(1) /\ has(2)
            /\ \/ s.constant = NoConstant
               \/ AngleWithin5Of(angleAtVertexDeg(P(0), P(1), P(2)), s.constant[1])
       [] s.kind = "angle-equals-angle" ->
            /\ \A i \in 0..5 : has(i)
            /\ AnglesWithin5(angleAtVertexDeg(P(0), P(1), P(2)),
                             angleAtVertexDeg(P(3), P(4), P(5)))
       [] s.kind = "segment-equals-segment" -> segmentEqualsSegment(ctx, s, 1, 100)
       [] s.kind = "triangles-congruent" ->
            /\ Len(s.pointNames) >= 6
            /\ \A i \in 1..Len(s.pointNames) : Has(ctx, s.pointNames[i])
       [] s.kind = "point-midpoint-of-segment" ->
            /\ has(0) /\ has(1) /\ has(2)
            /\ WithinPointTol(distToSegment(P(0), P(1), P(2)))
            /\ LengthsWithinHundredth(Dist2(P(0), P(1)), Dist2(P(0), P(2)))
       [] OTHER -> FALSE

-----------------------------------------------------------------------------
(* Step verifier *)

Ref(n) == <<"step", n>>

GivenRef == <<"given">>

ProofStep(outcome, reasonId, prerequisiteRefs) ==
  [outcome |-> outcome, reasonId |-> reasonId, prerequisiteRefs |-> prerequisiteRefs]

Msg(text, arg) == [text |-> text, arg |-> arg]

Accept(outcome) ==
  [threw |-> FALSE, ok |-> TRUE, message |-> Msg("", statementToString(outcome))]

Reject(text, arg) == [threw |-> FALSE, ok |-> FALSE, message |-> Msg(text, arg)]

\* previousSteps[ref - 1] is undefined and reading .outcome of it throws
Thrown == [threw |-> TRUE, ok |-> FALSE, message |-> Msg("TypeError", <<>>)]

\* One ref of the loop: it passes the range test ref >= 1 && ref <= stepIndex.
RefInRange(ref, stepIndex) == ref[1] # "given" /\ ref[2] >= 1 /\ ref[2] <= stepIndex

RECURSIVE PrerequisitesFrom(_, _, _, _, _)
PrerequisitesFrom(i, stepIndex, prerequisiteRefs, previousSteps, givens) ==
  IF i > Len(prerequisiteRefs) THEN <<>>
  ELSE LET ref == prerequisiteRefs[i]
           here == IF ref[1] = "given" THEN givens
                   ELSE IF RefInRange(ref, stepIndex) /\ ref[2] <= Len(previousSteps)
                          THEN <<previousSteps[ref[2]].outcome>>
                   ELSE <<>>
       IN here \o PrerequisitesFrom(i + 1, stepIndex, prerequisiteRefs, previousSteps, givens)

\* [threw, out]: threw when some ref in range names no previous step.
getPrerequisiteStatements(stepIndex, prerequisiteRefs, previousSteps, givens) ==
  [threw |-> \E i \in 1..Len(prerequisiteRefs) :
               /\ RefInRange(prerequisiteRefs[i], stepIndex)
               /\ prerequisiteRefs[i][2] > Len(previousSteps),
   out |-> PrerequisitesFrom(1, stepIndex, prerequisiteRefs, previousSteps, givens)]

verifyGivenStructural(step, givens) ==
  IF Len(givens) = 0 THEN Accept(step.outcome)
  ELSE IF \E i \in 1..Len(givens) : statementsEqualStructural(givens[i], step.outcome)
         THEN Accept(step.outcome)
  ELSE Reject("is not in the task givens.", statementToString(step.outcome))

verifyGiven(step, givens) ==
  IF Len(givens) = 0 THEN Accept(step.outcome)
  ELSE IF \E i \in 1..Len(givens) : statementsEqual(givens[i], step.outcome)
         THEN Accept(step.outcome)
  ELSE Reject("is not in the task givens.", statementToString(step.outcome))

verifyDefinition(ctx, step) ==
  IF checkStatement(ctx, step.outcome) THEN Accept(step.outcome)
  ELSE Reject("Not satisfied in construction:", statementToString(step.outcome))

verifyReflexivityFirstOnly(step) ==
  IF Nth(step.outcome.pointNames, 0) = Nth(step.outcome.pointNames, 2)
    THEN Accept(step.outcome)
    ELSE Reject("Reflexivity requires the same segment on both sides (e.g. AB = AB).", <<>>)

verifyReflexivity(step) ==
  LET o == step.outcome
  IN IF o.kind = "segment-equals-segment" /\ Len(o.pointNames) = 4
       THEN IF o.pointNames[1] = o.pointNames[3] /\ o.pointNames[2] = o.pointNames[4]
              THEN Accept(o)
              ELSE Reject("Reflexivity requires the same segment on both sides (e.g. AB = AB).",
                          <<>>)
     ELSE IF o.kind = "angle-equals-angle" /\ Len(o.pointNames) = 6
       THEN IF Triple(o.pointNames, 0) = Triple(o.pointNames, 3)
              THEN Accept(o)
              ELSE Reject("Reflexivity requires the same angle on both sides (e.g. AMB = AMB).",
                          <<>>)
     ELSE Reject("Reflexivity: outcome must be AB = AB or AMB = AMB (same segment or angle twice).",
                 <<>>)

verifyThales(step) ==
  LET o == step.outcome
  IN IF o.kind # "angle-equals-constant" \/ Len(o.pointNames) # 3
       THEN Reject("Thales: conclusion must be a right angle (e.g. ABC = 90).", <<>>)
     ELSE IF o.constant # <<90>>
       THEN Reject("Thales theorem applies to a right angle (90).", <<>>)
     ELSE Accept(o)

verifySumTriangleAngles(step) ==
  LET o == step.outcome
  IN IF o.kind # "triangle-angles-sum-180" \/ Len(o.pointNames) # 3
       THEN Reject("Conclusion must be: angles of a triangle sum to 180 (e.g. triangle ABC).",
                   <<>>)
     ELSE Accept(o)

\* Lines 114-131 and 141-157: the middle term and the conclusion of a chain.
ChainVerdictNoMiddle(step, kind, p0, p1, shape) ==
  LET o == step.outcome
  IN IF o.kind # kind \/ Len(o.pointNames) # 6
       THEN Reject(shape.text, shape.arg)
     ELSE IF Triple(o.pointNames, 0) # Triple(p0.pointNames, 0)
             \/ Triple(o.pointNames, 3) # Triple(p1.pointNames, 3)
       THEN Reject("Conclusion must be: first angle of prerequisite 1, second angle of prerequisite 2.",
                   <<>>)
     ELSE Accept(o)

ChainVerdict(step, kind, p0, p1, shape) ==
  LET o == step.outcome
  IN IF Triple(p0.pointNames, 3) # Triple(p1.pointNames, 0)
       THEN Reject("Middle term must match: second angle of first prerequisite = first angle of second.",
                   <<>>)
     ELSE IF o.kind # kind \/ Len(o.pointNames) # 6
       THEN Reject(shape.text, shape.arg)
     ELSE IF Triple(o.pointNames, 0) # Triple(p0.pointNames, 0)
             \/ Triple(o.pointNames, 3) # Triple(p1.pointNames, 3)
       THEN Reject("Conclusion must be: first angle of prerequisite 1, second angle of prerequisite 2.",
                   <<>>)
     ELSE Accept(o)

\* The guard of the transitivity-equals chain.
TransitivityEqualsChain(step, prereqStatements) ==
  /\ step.reasonId = "transitivity-equals"
  /\ Len(prereqStatements) >= 2
  /\ prereqStatements[1].kind = "angle-equals-angle"
  /\ prereqStatements[2].kind = "angle-equals-angle"

verifyTransitivityEquals(step, prereqStatements) ==
  ChainVerdict(step, "angle-equals-angle", prereqStatements[1], prereqStatements[2],
               Msg("Conclusion should be: angle-equals-angle (first angle of prerequisite 1, second of prerequisite 2).",
                   <<>>))

chainReasonIds ==
  {"transitivity-less", "transitivity-greater", "transitivity-leq", "transitivity-geq"}

verifyChain(step, reason, prereqStatements) ==
  LET kind == reason.conclusion.kind
  IN IF \/ Len(prereqStatements) < 2
        \/ prereqStatements[1].kind # kind
        \/ prereqStatements[2].kind # kind
       THEN Reject("Prerequisites must be two statements of type:",
                   statementToString(reason.conclusion))
       ELSE ChainVerdict(step, kind, prereqStatements[1], prereqStatements[2],
                         Msg("Conclusion should be (with your point names):",
                             statementToString(reason.conclusion)))

\* (p) => p.kind === 'angle-equals-constant' && (p.constant == null || p.constant === 90)
angle90(p) ==
  p.kind = "angle-equals-constant" /\ (p.constant = NoConstant \/ p.constant = <<90>>)

\* prereqStatements.findIndex(...): the first index not in used whose
\* statement equals req structurally, 0 for -1.  rightOnly is the hl filter.
FindIndex(prereqStatements, used, req, rightOnly) ==
  LET hits == {i \in 1..Len(prereqStatements) :
                 /\ i \notin used
                 /\ (rightOnly /\ req.kind = "angle-equals-constant")
                      => angle90(prereqStatements[i])
                 /\ statementsEqualStructural(prereqStatements[i], req)}
  IN IF hits = {} THEN 0 ELSE CHOOSE i \in hits : \A j \in hits : i <= j

RECURSIVE MatchFrom(_, _, _, _, _)
\* The loop over required from position r on, with the set of used indices.
MatchFrom(required, r, prereqStatements, used, rightOnly) ==
  IF r > Len(required) THEN TRUE
  ELSE LET idx == FindIndex(prereqStatements, used, required[r], rightOnly)
       IN IF idx = 0 THEN FALSE
          ELSE MatchFrom(required, r + 1, prereqStatements, used \cup {idx}, rightOnly)

\* A matcher that takes the prerequisites in the order of the premises.
matchTriangleCongruencePremisesInOrder(prereqStatements, required) ==
  /\ Len(prereqStatements) >= Len(required)
  /\ \A r \in 1..Len(required) : statementsEqualStructural(prereqStatements[r], required[r])

matchTriangleCongruencePremises(prereqStatements, required) ==
  MatchFrom(required, 1, prereqStatements, {}, FALSE)

\* The premise set of SAS at vertex v (0-based) of the correspondence tri1 - tri2.
SasRequired(tri1, tri2, v) ==
  LET v0 == v + 1
      v1 == ((v + 1) % 3) + 1
      v2 == ((v + 2) % 3) + 1
  IN << Stmt("segment-equals-segment", <<tri1[v0], tri1[v1], tri2[v0], tri2[v1]>>),
        Stmt("segment-equals-segment", <<tri1[v0], tri1[v2], tri2[v0], tri2[v2]>>),
        Stmt("angle-equals-angle",
             <<tri1[v2], tri1[v0], tri1[v1], tri2[v2], tri2[v0], tri2[v1]>>) >>

\* The guard shared by the five congruence matchers.
CongruenceOutcome(step) ==
  step.outcome.kind = "triangles-congruent" /\ Len(step.outcome.pointNames) = 6

verifySasIdentityOnly(step, prereqStatements) ==
  LET names == step.outcome.pointNames
  IN IF \E v \in 0..2 :
          MatchFrom(SasRequired(Tri1(names), Tri2(names, TRIANGLE_SECOND_PERMS[1]), v), 1,
                    prereqStatements, {}, FALSE)
       THEN Accept(step.outcome)
       ELSE Reject("No valid SAS combination: need two sides and the included angle equal under the same correspondence.",
                   <<>>)

verifySas(step, prereqStatements) ==
  LET names == step.outcome.pointNames
  IN IF \E q \in 1..Len(TRIANGLE_SECOND_PERMS) : \E v \in 0..2 :
          MatchFrom(SasRequired(Tri1(names), Tri2(names, TRIANGLE_SECOND_PERMS[q]), v), 1,
                    prereqStatements, {}, FALSE)
       THEN Accept(step.outcome)
       ELSE Reject("No valid SAS combination: need two sides and the included angle equal under the same correspondence.",
                   <<>>)

AsaRequired(tri1, tri2) ==
  << Stmt("angle-equals-angle", <<tri1[3], tri1[1], tri1[2], tri2[3], tri2[1], tri2[2]>>),
     Stmt("segment-equals-segment", <<tri1[1], tri1[2], tri2[1], tri2[2]>>),
     Stmt("angle-equals-angle", <<tri1[1], tri1[2], tri1[3], tri2[1], tri2[2], tri2[3]>>) >>

AasRequired(tri1, tri2) ==
  << Stmt("angle-equals-angle", <<tri1[3], tri1[1], tri1[2], tri2[3], tri2[1], tri2[2]>>),
     Stmt("angle-equals-angle", <<tri1[1], tri1[2], tri1[3], tri2[1], tri2[2], tri2[3]>>),
     Stmt("segment-equals-segment", <<tri1[2], tri1[3], tri2[2], tri2[3]>>) >>

SssRequired(tri1, tri2) ==
  << Stmt("segment-equals-segment", <<tri1[1], tri1[2], tri2[1], tri2[2]>>),
     Stmt("segment-equals-segment", <<tri1[2], tri1[3], tri2[2], tri2[3]>>),
     Stmt("segment-equals-segment", <<tri1[3], tri1[1], tri2[3], tri2[1]>>) >>

HlRequired(tri1, tri2) ==
  << StmtC("angle-equals-constant", <<tri1[1], tri1[2], tri1[3]>>, 90),
     StmtC("angle-equals-constant", <<tri2[1], tri2[2], tri2[3]>>, 90),
     Stmt("segment-equals-segment", <<tri1[1], tri1[3], tri2[1], tri2[3]>>),
     Stmt("segment-equals-segment", <<tri1[1], tri1[2], tri2[1], tri2[2]>>) >>

verifyAsa(step, prereqStatements) ==
  LET names == step.outcome.pointNames
  IN IF \E q \in 1..Len(TRIANGLE_SECOND_PERMS) :
          matchTriangleCongruencePremises(
            prereqStatements, AsaRequired(Tri1(names), Tri2(names, TRIANGLE_SECOND_PERMS[q])))
       THEN Accept(step.outcome)
       ELSE Reject("No valid ASA: need two angles and the included side under the same correspondence.",
                   <<>>)

verifyAas(step, prereqStatements) ==
  LET names == step.outcome.pointNames
  IN IF \E q \in 1..Len(TRIANGLE_SECOND_PERMS) :
          matchTriangleCongruencePremises(
            prereqStatements, AasRequired(Tri1(names), Tri2(names, TRIANGLE_SECOND_PERMS[q])))
       THEN Accept(step.outcome)
       ELSE Reject("No valid AAS: need two angles and a non-included side under the same correspondence.",
                   <<>>)

verifySss(step, prereqStatements) ==
  LET names == step.outcome.pointNames
  IN IF \E q \in 1..Len(TRIANGLE_SECOND_PERMS) :
          matchTriangleCongruencePremises(
            prereqStatements, SssRequired(Tri1(names), Tri2(names, TRIANGLE_SECOND_PERMS[q])))
       THEN Accept(step.outcome)
       ELSE Reject("No valid SSS: need all three sides equal under the same correspondence.",
                   <<>>)

verifyHl(step, prereqStatements) ==
  LET names == step.outcome.pointNames
  IN IF \E q \in 1..Len(TRIANGLE_SECOND_PERMS) :
          MatchFrom(HlRequired(Tri1(names), Tri2(names, TRIANGLE_SECOND_PERMS[q])), 1,
                    prereqStatements, {}, TRUE)
       THEN Accept(step.outcome)
       ELSE Reject("No valid HL: need right angles at corresponding vertices, hypotenuse and one leg equal.",
                   <<>>)

\* The three side equalities of the correspondence tri1 - tri2.
CongruenceSides(tri1, tri2) == SssRequired(tri1, tri2)

\* prereqStatements.filter(...): the indices of the congruence prerequisites
TriPrereqs(prereqStatements) ==
  {i \in 1..Len(prereqStatements) :
     /\ prereqStatements[i].kind = "triangles-congruent"
     /\ Len(prereqStatements[i].pointNames) >= 6}

verifyFromCongruenceFirstSide(step, prereqStatements) ==
  LET o == step.outcome
  IN IF o.kind # "segment-equals-segment" \/ Len(o.pointNames) < 4
       THEN Reject("Conclusion must be a segment equality (e.g. AB = DE).", <<>>)
     ELSE IF \E i \in TriPrereqs(prereqStatements) : \E q \in 1..Len(TRIANGLE_SECOND_PERMS) :
               LET names == prereqStatements[i].pointNames
                   sides == CongruenceSides(Tri1(names), Tri2(names, TRIANGLE_SECOND_PERMS[q]))
               IN segmentStatementKey(sides[1]) = segmentStatementKey(o)
       THEN Accept(o)
     ELSE Reject("Conclusion must be a pair of corresponding sides from a triangle congruence prerequisite.",
                 <<>>)

verifyFromCongruence(step, prereqStatements) ==
  LET o == step.outcome
  IN IF o.kind # "segment-equals-segment" \/ Len(o.pointNames) < 4
       THEN Reject("Conclusion must be a segment equality (e.g. AB = DE).", <<>>)
     ELSE IF \E i \in TriPrereqs(prereqStatements) : \E q \in 1..Len(TRIANGLE_SECOND_PERMS) :
               LET names == prereqStatements[i].pointNames
                   sides == CongruenceSides(Tri1(names), Tri2(names, TRIANGLE_SECOND_PERMS[q]))
               IN \E k \in 1..Len(sides) :
                    segmentStatementKey(sides[k]) = segmentStatementKey(o)
       THEN Accept(o)
     ELSE Reject("Conclusion must be a pair of corresponding sides from a triangle congruence prerequisite.",
                 <<>>)

\* The namings the generic path tries: the 6 reorderings of a congruence
\* outcome, else the outcome's names.
ToTry(outcome) ==
  LET names == outcome.pointNames
  IN IF outcome.kind = "triangles-congruent" /\ Len(names) = 6
       THEN [q \in 1..Len(TRIANGLE_SECOND_PERMS) |->
               Tri1(names) \o Tri2(names, TRIANGLE_SECOND_PERMS[q])]
       ELSE <<names>>

useSharedUsed(step, reason) ==
  /\ step.reasonId = "transitivity-equals"
  /\ Len(reason.premises) = 2
  /\ reason.premises[1].kind = "angle-equals-constant"
  /\ reason.premises[2].kind = "angle-equals-constant"

RECURSIVE PremisesFrom(_, _, _, _, _, _)
\* The loop over the premises from position i on for one naming:
\* [ok, error], error being the lastError the naming leaves.
PremisesFrom(i, reason, names, used, prereqStatements, shared) ==
  IF i > Len(reason.premises) THEN [ok |-> TRUE, error |-> Msg("", <<>>)]
  ELSE LET sub == substitutePremiseByOccurrence(
                    reason.premises[i], reason.conclusion.pointNames, names,
                    IF shared THEN used ELSE EmptyUsed)
       IN IF ~sub.found
            THEN [ok |-> FALSE,
                  error |-> Msg("Prerequisite: could not match to conclusion.",
                                <<ToString(i)>>)]
          ELSE IF ~\E j \in 1..Len(prereqStatements) :
                      statementsEqualStructural(prereqStatements[j], sub.statement)
            THEN [ok |-> FALSE,
                  error |-> Msg("Prerequisite: need a step stating (order of prerequisites does not matter)",
                                <<ToString(i)>> \o statementToString(sub.statement)
                                  \o (IF sub.statement.kind = "angle-equals-constant"
                                        THEN <<"same measure hint">> ELSE <<>>))]
          ELSE PremisesFrom(i + 1, reason, names, sub.used, prereqStatements, shared)

RECURSIVE NamingsFrom(_, _, _, _, _)
\* The loop over toTry from position t on; lastError is <<>> for null.
NamingsFrom(t, step, reason, prereqStatements, lastError) ==
  LET toTry == ToTry(step.outcome)
  IN IF t > Len(toTry)
       THEN IF lastError = <<>> THEN Reject("Prerequisites do not match.", <<>>)
            ELSE Reject(lastError[1].text, lastError[1].arg)
       ELSE LET r == PremisesFrom(1, reason, toTry[t], EmptyUsed, prereqStatements,
                                  useSharedUsed(step, reason))
            IN IF r.ok THEN Accept(step.outcome)
               ELSE NamingsFrom(t + 1, step, reason, prereqStatements, <<r.error>>)

verifyGeneric(step, reason, prereqStatements) ==
  IF \/ step.outcome.kind # reason.conclusion.kind
     \/ Len(step.outcome.pointNames) # Len(reason.conclusion.pointNames)
    THEN Reject("Conclusion should be (with your point names):",
                statementToString(reason.conclusion))
    ELSE NamingsFrom(1, step, reason, prereqStatements, <<>>)

\* Lines 102-342: the reasons that resolve prerequisites.
verifyWithPrerequisites(step, reason, prereqStatements) ==
  IF Len(prereqStatements) < Len(reason.premises)
    THEN Reject("This reason requires prerequisite(s):", <<ToString(Len(reason.premises))>>)
  ELSE IF TransitivityEqualsChain(step, prereqStatements)
    THEN verifyTransitivityEquals(step, prereqStatements)
  ELSE IF step.reasonId \in chainReasonIds
    THEN verifyChain(step, reason, prereqStatements)
  ELSE IF step.reasonId = "sas" /\ CongruenceOutcome(step)
    THEN verifySas(step, prereqStatements)
  ELSE IF step.reasonId = "asa" /\ CongruenceOutcome(step)
    THEN verifyAsa(step, prereqStatements)
  ELSE IF step.reasonId = "aas" /\ CongruenceOutcome(step)
    THEN verifyAas(step, prereqStatements)
  ELSE IF step.reasonId = "sss" /\ CongruenceOutcome(step)
    THEN verifySss(step, prereqStatements)
  ELSE IF step.reasonId = "hl" /\ CongruenceOutcome(step)
    THEN verifyHl(step, prereqStatements)
  ELSE IF step.reasonId = "from-congruence"
    THEN verifyFromCongruence(step, prereqStatements)
  ELSE verifyGeneric(step, reason, prereqStatements)

verifyStep(ctx, step, previousSteps, givens) ==
  LET stepIndex == Len(previousSteps) + 1
  IN IF step.reasonId = REASON_GIVEN THEN verifyGiven(step, givens)
     ELSE IF step.reasonId = REASON_DEFINITION THEN verifyDefinition(ctx, step)
     ELSE IF step.reasonId \notin ReasonIds THEN Reject("Unknown or disabled reason.", <<>>)
     ELSE IF step.reasonId = "reflexivity" THEN verifyReflexivity(step)
     ELSE IF step.reasonId = "thales" THEN verifyThales(step)
     ELSE IF step.reasonId = "sum-triangle-angles" THEN verifySumTriangleAngles(step)
     ELSE LET prereq == getPrerequisiteStatements(stepIndex, step.prerequisiteRefs,
                                                   previousSteps, givens)
          IN IF prereq.threw THEN Thrown
             ELSE verifyWithPrerequisites(step, FindReason(step.reasonId), prereq.out)

-----------------------------------------------------------------------------
(* Bounds and input sets *)

\* The longest list of previous steps.
MaxSteps == 3

\* The longest prerequisiteRefs list.
MaxRefs == 3

\* All sequences over S of length at most n.
SeqsUpTo(S, n) == UNION {[1..k -> S] : k \in 0..n}

\* Those that state nothing twice.
InjectiveSeqsUpTo(S, n) ==
  {q \in SeqsUpTo(S, n) : \A i, j \in 1..Len(q) : q[i] = q[j] => i = j}

\* The refs a caller can pass over n previous steps: 'given', the steps
\* 1..n, and n + 1 (the index of the step being verified).
RefPool(n) == {GivenRef} \cup {Ref(k) : k \in 1..(n + 1)}

RefLists(n) == SeqsUpTo(RefPool(n), MaxRefs)

\* The step lists over the steps of pool in which every step was accepted
\* by verifyStep over the steps before it.
Histories(snap, givens, pool) ==
  {h \in InjectiveSeqsUpTo(pool, MaxSteps) :
     \A i \in 1..Len(h) :
       verifyStep(resolveContext(snap), h[i], SubSeq(h, 1, i - 1), givens).ok}

Steps(reasonIds, outcomes, n) ==
  {ProofStep(o, r, refs) : o \in outcomes, r \in reasonIds, refs \in RefLists(n)}

SES(names) == Stmt("segment-equals-segment", names)

AEA(names) == Stmt("angle-equals-angle", names)

TC(names) == Stmt("triangles-congruent", names)

\* A on the axis of BC, M the midpoint of BC: AM common, BM = MC, right angles at M.
KiteSnapshot ==
  <<Point(1, 2, "A"), Point(1, 0, "M"), Point(0, 0, "B"), Point(2, 0, "C")>>

\* Triangle DEF is triangle ABC moved by (1, 2).
TwoTrianglesSnapshot ==
  <<Point(0, 0, "A"), Point(2, 0, "B"), Point(0, 1, "C"),
    Point(1, 2, "D"), Point(3, 2, "E"), Point(1, 3, "F")>>

NoCall == [fn |-> "none"]

NoRet == [threw |-> FALSE, ok |-> FALSE, message |-> Msg("none", <<>>)]

\* The inputs common to the verifyStep specifications.
InitWith(snapshots, givensChoices, pool) ==
  /\ snapshot \in snapshots
  /\ taskGivens \in givensChoices
  /\ proofSteps \in Histories(snapshot, taskGivens, pool)
  /\ call = NoCall
  /\ ret = NoRet
  /\ PlaneUntouched

\* One call verifyStep(resolveContext(snapshot), step, proofSteps, taskGivens)
\* on the inputs drawn by Init, the step built from the given reasons and
\* outcomes; a behaviour records one call and its result.
VerifyStep(reasonIds, outcomes) ==
  /\ call = NoCall
  /\ \E step \in Steps(reasonIds, outcomes, Len(proofSteps)) :
       /\ call' = [fn |-> "verifyStep", step |-> step]
       /\ ret' = verifyStep(resolveContext(snapshot), step, proofSteps, taskGivens)
  /\ UNCHANGED <<snapshot, taskGivens, proofSteps>>
  /\ UNCHANGED plane

\* The resolved prerequisites of the recorded call; none when resolving threw.
CallPrereqs ==
  LET r == getPrerequisiteStatements(Len(proofSteps) + 1, call.step.prerequisiteRefs,
                                     proofSteps, taskGivens)
  IN IF r.threw THEN <<>> ELSE r.out

Called(reasonIds) == call.fn = "verifyStep" /\ call.step.reasonId \in reasonIds

-----------------------------------------------------------------------------
(* Spec: verifyStep with any reason *)

AnyReasonIds == ReasonIds \cup {"no-such-reason"}

AnyOutcomes ==
  { SES(<<"A", "B", "A", "B">>), SES(<<"A", "B", "A", "C">>), SES(<<"A", "B">>),
    AEA(<<"A", "M", "B", "A", "M", "B">>), AEA(<<"A", "M", "B", "A", "M", "C">>),
    TC(<<"A", "B", "C", "D", "E", "F">>), TC(<<"A", "M", "B", "A", "M", "C">>),
    StmtC("angle-equals-constant", <<"A", "M", "B">>, 90),
    Stmt("points-distinct", <<"A", "B">>),
    Stmt("triangle-angles-sum-180", <<"A", "B", "C">>) }

AnyGivens ==
  { <<>>, <<SES(<<"B", "A", "A", "B">>), AEA(<<"A", "M", "B", "A", "M", "C">>)>> }

AnyPool == {ProofStep(SES(<<"A", "B", "A", "B">>), "reflexivity", <<>>)}

Init == InitWith({KiteSnapshot, TwoTrianglesSnapshot}, AnyGivens, AnyPool)

Next == VerifyStep(AnyReasonIds, AnyOutcomes)

Spec == Init /\ [][Next]_vars

\* C1: verifyStep never throws: whatever the step, the previous steps and the
\* task givens, a ref equal to previousSteps.length + 1 included, the call
\* returns a result.
C1_NeverThrows == call.fn = "verifyStep" => ~ret.threw

\* C6: a triangle congruence is never established by the numeric fallback: an
\* accepted step whose outcome is a triangle congruence has the reason 'given'
\* or one of the congruence matchers, and so 'definition' does not accept
\* triangle ABC congruent to triangle DEF because its six names resolve.
C6_CongruenceOnlyByMatcher ==
  (call.fn = "verifyStep" /\ ret.ok /\ call.step.outcome.kind = "triangles-congruent")
    => call.step.reasonId \in {"given", "sas", "asa", "aas", "sss", "hl"}

\* The outcomes C9 calls reflexive: a segment equality [a, b, c, d] with a = c
\* and b = d, or an angle equality whose two triples are identical.
C9_Reflexive(o) ==
  \/ /\ o.kind = "segment-equals-segment"
     /\ Len(o.pointNames) >= 4
     /\ o.pointNames[1] = o.pointNames[3]
     /\ o.pointNames[2] = o.pointNames[4]
  \/ /\ o.kind = "angle-equals-angle"
     /\ Len(o.pointNames) >= 6
     /\ \A i \in 1..3 : o.pointNames[i] = o.pointNames[i + 3]

\* C9: 'reflexivity' accepts a step exactly when its outcome is reflexive,
\* whatever the construction, the previous steps, the givens and the refs.
C9_ReflexivityIff ==
  Called({"reflexivity"}) => (~ret.threw /\ (ret.ok <=> C9_Reflexive(call.step.outcome)))

\* A reflexive angle equality accepted over a step list, with a ref that no
\* previous step answers to.
C9_Witness ==
  /\ Called({"reflexivity"})
  /\ call.step.outcome = AEA(<<"A", "M", "B", "A", "M", "B">>)
  /\ call.step.prerequisiteRefs = <<Ref(Len(proofSteps) + 1)>>
  /\ proofSteps # <<>>
  /\ ret.ok

\* C10: 'given' accepts every outcome when the task has no givens; otherwise it
\* accepts exactly the outcomes that have the kind and the point names, in
\* order, of some given, and rejects the others as not in the task givens.
C10_GivenIff ==
  Called({"given"}) =>
    /\ ~ret.threw
    /\ taskGivens = <<>> => ret.ok
    /\ taskGivens # <<>> =>
         /\ ret.ok <=> \E i \in 1..Len(taskGivens) :
                         /\ taskGivens[i].kind = call.step.outcome.kind
                         /\ taskGivens[i].pointNames = call.step.outcome.pointNames
         /\ ~ret.ok => ret.message.text = "is not in the task givens."

\* AB = AB rejected as a given although the givens hold BA = AB, its symmetric form.
C10_Witness ==
  /\ Called({"given"})
  /\ call.step.outcome = SES(<<"A", "B", "A", "B">>)
  /\ \E i \in 1..Len(taskGivens) : statementsEqualStructural(taskGivens[i], call.step.outcome)
  /\ ~ret.ok

-----------------------------------------------------------------------------
(* SpecSas: 'sas' over the kite *)

SasPremises ==
  { SES(<<"A", "M", "A", "M">>), SES(<<"B", "M", "M", "C">>),
    AEA(<<"A", "M", "B", "A", "M", "C">>) }

\* Each premise holds in the kite, so 'definition' accepts it as a step.
SasPool == {ProofStep(st, "definition", <<>>) : st \in SasPremises}

\* Citing 'given' brings in MC = MB, a symmetric form of BM = MC, and AB = AC.
SasGivens == { <<>>, <<SES(<<"M", "C", "M", "B">>), SES(<<"A", "B", "A", "C">>)>> }

SasOutcomes ==
  { TC(<<"A", "M", "B", "A", "M", "C">>), TC(<<"A", "M", "B", "A", "C", "M">>),
    TC(<<"M", "B", "A", "M", "C", "A">>), TC(<<"A", "B", "C", "A", "C", "B">>) }

InitSas == InitWith({KiteSnapshot}, SasGivens, SasPool)

NextSas == VerifyStep({"sas"}, SasOutcomes)

SpecSas == InitSas /\ [][NextSas]_vars

\* Vertex i (0, 1 or 2) of a triangle given as three names.
C2_Vertex(tri, i) == tri[(i % 3) + 1]

\* The side-angle-side premises of the correspondence tri1 -> tri2 at vertex v:
\* the two sides that meet at v and the angle between them.
C2_Premises(tri1, tri2, v) ==
  [ side1 |-> SES(<<C2_Vertex(tri1, v), C2_Vertex(tri1, v + 1),
                    C2_Vertex(tri2, v), C2_Vertex(tri2, v + 1)>>),
    side2 |-> SES(<<C2_Vertex(tri1, v), C2_Vertex(tri1, v + 2),
                    C2_Vertex(tri2, v), C2_Vertex(tri2, v + 2)>>),
    angle |-> AEA(<<C2_Vertex(tri1, v + 1), C2_Vertex(tri1, v), C2_Vertex(tri1, v + 2),
                    C2_Vertex(tri2, v + 1), C2_Vertex(tri2, v), C2_Vertex(tri2, v + 2)>>) ]

\* Some ordering of the second triangle and some vertex have their three
\* premises among the prerequisites, at three distinct places.
C2_Justified(names, prereqs) ==
  \E q \in 1..Len(TRIANGLE_SECOND_PERMS) : \E v \in 0..2 :
    LET perm == TRIANGLE_SECOND_PERMS[q]
        tri1 == <<names[1], names[2], names[3]>>
        tri2 == <<names[4 + perm[1]], names[4 + perm[2]], names[4 + perm[3]]>>
        need == C2_Premises(tri1, tri2, v)
    IN \E i \in 1..Len(prereqs) :
         /\ statementsEqualStructural(prereqs[i], need.side1)
         /\ \E j \in 1..Len(prereqs) \ {i} :
              /\ statementsEqualStructural(prereqs[j], need.side2)
              /\ \E k \in 1..Len(prereqs) \ {i, j} :
                   statementsEqualStructural(prereqs[k], need.angle)

\* C2: 'sas' accepts a six-name triangle congruence exactly when some ordering
\* of its second triangle and some vertex rotation have their two side
\* equalities and included-angle equality among three distinct resolved
\* prerequisites, up to structural equality.
C2_SasIff ==
  (Called({"sas"}) /\ call.step.outcome.kind = "triangles-congruent"
                   /\ Len(call.step.outcome.pointNames) = 6)
    => (ret.ok <=> C2_Justified(call.step.outcome.pointNames, CallPrereqs))

\* From AM = AM, BM = MC and angle AMB = angle AMC, cited as steps 1..3 in some
\* order, the outcome with the second triangle written A, C, M is accepted.
C2_Witness ==
  /\ Called({"sas"})
  /\ call.step.outcome = TC(<<"A", "M", "B", "A", "C", "M">>)
  /\ Len(CallPrereqs) = 3
  /\ {CallPrereqs[i] : i \in 1..3} = SasPremises
  /\ ret.ok

-----------------------------------------------------------------------------
(* SpecAsa: 'asa' and 'aas' over two congruent triangles *)

\* Two angles of ABC and DEF and the side BC between them.
AsaPremises ==
  { AEA(<<"A", "B", "C", "D", "E", "F">>), SES(<<"B", "C", "E", "F">>),
    AEA(<<"B", "C", "A", "E", "F", "D">>) }

\* Each premise holds for the two triangles, so 'definition' accepts it as a step.
AsaPool == {ProofStep(st, "definition", <<>>) : st \in AsaPremises}

\* Citing 'given' brings in the angle at A and the side AB.
AsaGivens == { <<>>, <<AEA(<<"C", "A", "B", "F", "D", "E">>), SES(<<"A", "B", "D", "E">>)>> }

AsaOutcomes ==
  { TC(<<"A", "B", "C", "D", "E", "F">>), TC(<<"B", "C", "A", "E", "F", "D">>) }

InitAsa == InitWith({TwoTrianglesSnapshot}, AsaGivens, AsaPool)

NextAsa == VerifyStep({"asa", "aas"}, AsaOutcomes)

SpecAsa == InitAsa /\ [][NextAsa]_vars

\* The premises of the correspondence tri1 -> tri2 built on the side from
\* vertex v to vertex v + 1: the angles at its two ends, and the side itself
\* ('asa') or the next side round ('aas').
C4_Premises(reasonId, tri1, tri2, v) ==
  LET s == IF reasonId = "asa" THEN v ELSE v + 1
  IN [ angle1 |-> AEA(<<C2_Vertex(tri1, v + 2), C2_Vertex(tri1, v), C2_Vertex(tri1, v + 1),
                        C2_Vertex(tri2, v + 2), C2_Vertex(tri2, v), C2_Vertex(tri2, v + 1)>>),
       angle2 |-> AEA(<<C2_Vertex(tri1, v), C2_Vertex(tri1, v + 1), C2_Vertex(tri1, v + 2),
                        C2_Vertex(tri2, v), C2_Vertex(tri2, v + 1), C2_Vertex(tri2, v + 2)>>),
       side |-> SES(<<C2_Vertex(tri1, s), C2_Vertex(tri1, s + 1),
                      C2_Vertex(tri2, s), C2_Vertex(tri2, s + 1)>>) ]

C4_Justified(reasonId, names, prereqs) ==
  \E q \in 1..Len(TRIANGLE_SECOND_PERMS) : \E v \in 0..2 :
    LET perm == TRIANGLE_SECOND_PERMS[q]
        tri1 == <<names[1], names[2], names[3]>>
        tri2 == <<names[4 + perm[1]], names[4 + perm[2]], names[4 + perm[3]]>>
        need == C4_Premises(reasonId, tri1, tri2, v)
    IN \E i \in 1..Len(prereqs) :
         /\ statementsEqualStructural(prereqs[i], need.angle1)
         /\ \E j \in 1..Len(prereqs) \ {i} :
              /\ statementsEqualStructural(prereqs[j], need.angle2)
              /\ \E k \in 1..Len(prereqs) \ {i, j} :
                   statementsEqualStructural(prereqs[k], need.side)

\* C4: 'asa' and 'aas' accept a six-name triangle congruence whose premises,
\* built on any of the three sides of the first triangle under some ordering
\* of the second, are among the resolved prerequisites: 'asa' accepts triangle
\* ABC congruent to triangle DEF from angle ABC = angle DEF, BC = EF and
\* angle BCA = angle EFD.
C4_AnyRotationAccepted ==
  (Called({"asa", "aas"}) /\ call.step.outcome.kind = "triangles-congruent"
                          /\ Len(call.step.outcome.pointNames) = 6
                          /\ C4_Justified(call.step.reasonId, call.step.outcome.pointNames,
                                          CallPrereqs))
    => ret.ok

-----------------------------------------------------------------------------
(* SpecCpctc: 'from-congruence' over the kite *)

\* A congruence 'definition' accepts in the kite, and one a name short that
\* only an open task's 'given' accepts.
CpctcPool ==
  { ProofStep(TC(<<"A", "M", "B", "A", "M", "C">>), "definition", <<>>),
    ProofStep(SES(<<"A", "M", "A", "M">>), "definition", <<>>),
    ProofStep(TC(<<"A", "M", "B", "A", "M">>), "given", <<>>) }

CpctcGivens == { <<>>, <<TC(<<"B", "A", "M", "C", "A", "M">>)>> }

CpctcOutcomes ==
  { SES(<<"A", "B", "A", "C">>), SES(<<"B", "M", "M", "C">>), SES(<<"A", "M", "A", "C">>),
    SES(<<"A", "B", "A", "B">>), SES(<<"A", "B">>),
    AEA(<<"A", "M", "B", "A", "M", "C">>), TC(<<"A", "M", "B", "A", "M", "C">>) }

InitCpctc == InitWith({KiteSnapshot}, CpctcGivens, CpctcPool)

NextCpctc == VerifyStep({"from-congruence"}, CpctcOutcomes)

SpecCpctc == InitCpctc /\ [][NextCpctc]_vars

\* Some congruence among the prerequisites, under some ordering of its second
\* triangle, has a side equality (vertices 0-1, 1-2 or 2-0) with the outcome's key.
C5_Justified(outcome, prereqs) ==
  \E i \in 1..Len(prereqs) :
    /\ prereqs[i].kind = "triangles-congruent"
    /\ Len(prereqs[i].pointNames) >= 6
    /\ \E q \in 1..Len(TRIANGLE_SECOND_PERMS) : \E v \in 0..2 :
         LET perm == TRIANGLE_SECOND_PERMS[q]
             names == prereqs[i].pointNames
             tri1 == <<names[1], names[2], names[3]>>
             tri2 == <<names[4 + perm[1]], names[4 + perm[2]], names[4 + perm[3]]>>
         IN segmentStatementKey(outcome)
              = segmentStatementKey(SES(<<C2_Vertex(tri1, v), C2_Vertex(tri1, v + 1),
                                          C2_Vertex(tri2, v), C2_Vertex(tri2, v + 1)>>))

\* C5: 'from-congruence' rejects every outcome that is not a segment equality,
\* and accepts a segment equality exactly when it has the key of a side
\* equality of some congruence prerequisite under some ordering of that
\* prerequisite's second triangle.
C5_FromCongruenceIff ==
  Called({"from-congruence"}) =>
    /\ call.step.outcome.kind # "segment-equals-segment" => ~ret.ok
    /\ (call.step.outcome.kind = "segment-equals-segment"
          /\ Len(call.step.outcome.pointNames) >= 4)
         => (ret.ok <=> C5_Justified(call.step.outcome, CallPrereqs))

\* BM = MC accepted from the congruence of AMB and AMC, cited after a
\* prerequisite that is no congruence.
C5_Witness ==
  /\ Called({"from-congruence"})
  /\ call.step.outcome = SES(<<"B", "M", "M", "C">>)
  /\ Len(CallPrereqs) >= 2
  /\ CallPrereqs[1].kind = "segment-equals-segment"
  /\ CallPrereqs[2] = TC(<<"A", "M", "B", "A", "M", "C">>)
  /\ ret.ok

-----------------------------------------------------------------------------
(* SpecChain: the transitivity chains *)

ChainKinds ==
  { "angle-equals-angle", "angle-less-than-angle", "angle-greater-than-angle",
    "angle-leq-angle", "angle-geq-angle" }

\* The reason that chains statements of the kind.
ChainReasonOf(kind) ==
  IF kind = "angle-equals-angle" THEN "transitivity-equals"
  ELSE CHOOSE id \in chainReasonIds : FindReason(id).conclusion.kind = kind

\* Two comparisons of the kind that chain through angle AMB, and a comparison
\* of another kind, each stated as a 'given' of an open task.
ChainPool(kind) ==
  LET other == IF kind = "angle-equals-angle" THEN "angle-less-than-angle"
               ELSE "angle-equals-angle"
  IN { ProofStep(Stmt(kind, <<"A", "M", "C", "A", "M", "B">>), "given", <<>>),
       ProofStep(Stmt(kind, <<"A", "M", "B", "X", "Y", "Z">>), "given", <<>>),
       ProofStep(Stmt(other, <<"A", "M", "B", "X", "Y", "Z">>), "given", <<>>) }

\* The kinds the previous steps state, and angle equality.
KindsStated ==
  {proofSteps[i].outcome.kind : i \in 1..Len(proofSteps)} \cup {"angle-equals-angle"}

ChainOutcomes ==
  { Stmt(kind, names) : kind \in KindsStated,
                        names \in { <<"A", "M", "C", "X", "Y", "Z">>,
                                    <<"A", "M", "C", "A", "M", "B">> } }

InitChain == \E kind \in ChainKinds : InitWith({KiteSnapshot}, {<<>>}, ChainPool(kind))

NextChain == VerifyStep({ChainReasonOf(kind) : kind \in KindsStated}, ChainOutcomes)

SpecChain == InitChain /\ [][NextChain]_vars

\* The comparison kind a chain reason works on.
C3_Kind(reasonId) ==
  IF reasonId = "transitivity-equals" THEN "angle-equals-angle"
  ELSE FindReason(reasonId).conclusion.kind

\* C3: for 'transitivity-equals' and the four ordering chains, when the first
\* two resolved prerequisites are of the reason's kind the step is accepted
\* exactly when the second triple of the first is the first triple of the
\* second and the outcome is of that kind with the names (first triple of the
\* first, second triple of the second); the ordering chains reject
\* prerequisites of any other kind. Every prerequisite here has six names.
C3_ChainIff ==
  Called(chainReasonIds \cup {"transitivity-equals"}) =>
    LET kind == C3_Kind(call.step.reasonId)
        p == CallPrereqs
        o == call.step.outcome
    IN IF Len(p) >= 2 /\ p[1].kind = kind /\ p[2].kind = kind
         THEN ret.ok <=> /\ SubSeq(p[1].pointNames, 4, 6) = SubSeq(p[2].pointNames, 1, 3)
                         /\ o.kind = kind
                         /\ o.pointNames = SubSeq(p[1].pointNames, 1, 3)
                                             \o SubSeq(p[2].pointNames, 4, 6)
         ELSE call.step.reasonId \in chainReasonIds => ~ret.ok

\* From angle AMC = angle AMB and angle AMB = angle XYZ, angle AMC = angle XYZ.
C3_Witness ==
  /\ Called({"transitivity-equals"})
  /\ Len(CallPrereqs) >= 2
  /\ CallPrereqs[1] = AEA(<<"A", "M", "C", "A", "M", "B">>)
  /\ CallPrereqs[2] = AEA(<<"A", "M", "B", "X", "Y", "Z">>)
  /\ call.step.outcome = AEA(<<"A", "M", "C", "X", "Y", "Z">>)
  /\ ret.ok

-----------------------------------------------------------------------------
(* SpecEqual: statementsEqualStructural on a statement and a rearrangement of it *)

EqualNames == {"A", "B", "C", "D"}

EqualStatements ==
  {SES(names) : names \in [1..4 -> EqualNames]} \cup {AEA(names) : names \in [1..6 -> EqualNames]}

\* Where each name of the rearranged statement comes from. The first three
\* of a segment equality swap the ends of both segments, the ends of the
\* second, and the two segments; the first two of an angle equality swap the
\* two angles and the arms of the first. The last of each moves a name across.
Rearrangements(kind) ==
  IF kind = "segment-equals-segment"
    THEN {<<2, 1, 4, 3>>, <<1, 2, 4, 3>>, <<3, 4, 1, 2>>, <<1, 3, 2, 4>>}
    ELSE {<<4, 5, 6, 1, 2, 3>>, <<3, 2, 1, 4, 5, 6>>, <<2, 1, 3, 4, 5, 6>>}

Rearranged(st, by) == Stmt(st.kind, [i \in 1..Len(by) |-> st.pointNames[by[i]]])

InitPure ==
  /\ snapshot = <<>>
  /\ taskGivens = <<>>
  /\ proofSteps = <<>>
  /\ call = NoCall
  /\ ret = NoRet
  /\ PlaneUntouched

\* One call statementsEqualStructural(a, b).
StatementsEqualStructural ==
  /\ call = NoCall
  /\ \E a \in EqualStatements : \E by \in Rearrangements(a.kind) :
       /\ call' = [fn |-> "statementsEqualStructural", a |-> a, b |-> Rearranged(a, by),
                   by |-> by]
       /\ ret' = [value |-> statementsEqualStructural(a, Rearranged(a, by))]
  /\ UNCHANGED <<snapshot, taskGivens, proofSteps>>
  /\ UNCHANGED plane

NextEqual == StatementsEqualStructural

SpecEqual == InitPure /\ [][NextEqual]_vars

\* C7: a segment equality [a, b, c, d] is structurally equal to [b, a, d, c],
\* to [a, b, d, c] and to [c, d, a, b], and an angle equality
\* [a, m, b, c, n, d] to [c, n, d, a, m, b] and to [b, m, a, c, n, d].
C7_SymmetryInvariance ==
  (call.fn = "statementsEqualStructural"
     /\ call.by \in {<<2, 1, 4, 3>>, <<1, 2, 4, 3>>, <<3, 4, 1, 2>>,
                     <<4, 5, 6, 1, 2, 3>>, <<3, 2, 1, 4, 5, 6>>})
    => ret.value

\* AB = CA against BA = AC: equal, although no name stays in its place.
C7_Witness ==
  /\ call.fn = "statementsEqualStructural"
  /\ call.a = SES(<<"A", "B", "C", "A">>)
  /\ call.b = SES(<<"B", "A", "A", "C">>)
  /\ ret.value

-----------------------------------------------------------------------------
(* SpecSubst: substitutePremiseByOccurrence from an empty counter *)

\* The longest premise.
MaxPremiseLen == 3

\* The longest conclusion template.
MaxTemplateLen == 4

SubstPlaceholders == {"A", "B", "C"}

SubstPremises ==
  { Stmt(kind, names) : kind \in {"point-on-line", "points-distinct"},
                        names \in SeqsUpTo(SubstPlaceholders, MaxPremiseLen) \ {<<>>} }

SubstTemplates == SeqsUpTo(SubstPlaceholders, MaxTemplateLen)

\* The outcome's names, one per name of the template: all different, or
\* with names that come back.
SubstOutcomes(n) ==
  { SubSeq(<<"X", "Y", "Z", "M", "N", "P">>, 1, n),
    SubSeq(<<"X", "Y", "X", "Z", "Y", "X">>, 1, n) }

\* One call substitutePremiseByOccurrence(premise, template, outcome, new Map()).
SubstitutePremiseByOccurrence ==
  /\ call = NoCall
  /\ \E premise \in SubstPremises : \E template \in SubstTemplates :
       \E outcome \in SubstOutcomes(Len(template)) :
         /\ call' = [fn |-> "substitutePremiseByOccurrence", premise |-> premise,
                     conclusionPointNames |-> template, outcomePointNames |-> outcome]
         /\ ret' = substitutePremiseByOccurrence(premise, template, outcome, EmptyUsed)
  /\ UNCHANGED <<snapshot, taskGivens, proofSteps>>
  /\ UNCHANGED plane

NextSubst == SubstitutePremiseByOccurrence

SpecSubst == InitPure /\ [][NextSubst]_vars

\* How many times the name at place j of names occurs before place j.
C8_Earlier(names, j) == Cardinality({i \in 1..(j - 1) : names[i] = names[j]})

\* The places of the template that hold the placeholder at place j of the
\* premise and have as many earlier occurrences of it: one place or none.
C8_Places(premiseNames, template, j) ==
  {i \in 1..Len(template) : /\ template[i] = premiseNames[j]
                            /\ C8_Earlier(template, i) = C8_Earlier(premiseNames, j)}

\* C8: from an empty counter, the k-th occurrence of a placeholder in the
\* premise becomes the outcome name at the place of its k-th occurrence in the
\* conclusion template, the kind kept, and the result is absent exactly when
\* some occurrence has no such place.
C8_OccurrenceOrder ==
  call.fn = "substitutePremiseByOccurrence" =>
    LET names == call.premise.pointNames
        template == call.conclusionPointNames
    IN /\ ret.found <=> \A j \in 1..Len(names) : C8_Places(names, template, j) # {}
       /\ ret.found =>
            /\ ret.statement.kind = call.premise.kind
            /\ Len(ret.statement.pointNames) = Len(names)
            /\ \A j \in 1..Len(names) : \A i \in C8_Places(names, template, j) :
                 ret.statement.pointNames[j] = call.outcomePointNames[i]

\* Premise point-on-line [C, A, B], template [A, C, A, B], outcome [X, Y, X, Z].
C8_Witness ==
  /\ call.fn = "substitutePremiseByOccurrence"
  /\ call.premise = Stmt("point-on-line", <<"C", "A", "B">>)
  /\ call.conclusionPointNames = <<"A", "C", "A", "B">>
  /\ call.outcomePointNames = <<"X", "Y", "X", "Z">>
  /\ ret.found
  /\ ret.statement = Stmt("point-on-line", <<"Y", "X", "Z">>)


-----------------------------------------------------------------------------
(* Plane geometry (src/client/geometry-math.ts, geometry-objects)           *)
(*                                                                         *)
(* Pointer positions and object coordinates are integers, and a radius is  *)
(* kept as its square r2 (r = sqrt(r2)).  A distance is |sqrt(n/d) -       *)
(* sqrt(b)|, kept as [n, d, b], so every comparison of the hit test is     *)
(* decided exactly.  A computed position that is not an integer pair is    *)
(* Unrepresentable; the plane specifications take no click that computes   *)
(* one.  NaN and JsonNull are two codes outside the coordinate range.      *)

\* the value of 0 / 0
NaN == -1000001

\* what JSON.stringify writes for NaN, read back by JSON.parse
JsonNull == -1000002

IsNaN(v) == v = NaN

\* A computed position or list of positions: ok = FALSE when it is not
\* representable.
Unrepresentable == [ok |-> FALSE, value |-> <<>>]

Exactly(v) == [ok |-> TRUE, value |-> v]

P2(x, y) == [x |-> x, y |-> y]

PointObj(x, y) == [type |-> "point", x |-> x, y |-> y]

LineObj(type, x1, y1, x2, y2) == [type |-> type, x1 |-> x1, y1 |-> y1, x2 |-> x2, y2 |-> y2]

AngleObj(x1, y1, vx, vy, x2, y2) ==
  [type |-> "angle", x1 |-> x1, y1 |-> y1, vx |-> vx, vy |-> vy, x2 |-> x2, y2 |-> y2]

CircleObj(cx, cy, r2) == [type |-> "circle", cx |-> cx, cy |-> cy, r2 |-> r2]

LineLikeTypes == {"line", "ray", "segment"}

Sq(v) == v * v

\* Math.hypot(x - px, y - py)
HypotDist(x, y, px, py) == [n |-> Sq(x - px) + Sq(y - py), d |-> 1, b |-> 0]

NaNDist == [n |-> NaN, d |-> 1, b |-> 0]

\* a < b on distances; FALSE when either is NaN
DistLess(u, v) ==
  IF IsNaN(u.n) \/ IsNaN(v.n) THEN FALSE
  ELSE IF u.b = 0 /\ v.b = 0 THEN u.n * v.d < v.n * u.d
  ELSE IF v.b = 0
    THEN LET K == v.d * (u.n + u.b) - v.n
         IN K < 0 \/ Sq(K) < 4 * Sq(v.d) * u.n * u.b
  ELSE IF u.b = 0
    THEN LET K == u.d * (v.n + v.b) - u.n
         IN K > 0 /\ 4 * Sq(u.d) * v.n * v.b < Sq(K)
  ELSE LET L == u.n + u.b - v.n - v.b
           P == u.n * u.b
           Q == v.n * v.b
           R == 4 * (P + Q) - Sq(L)
       IN IF P >= Q THEN L < 0 \/ (R > 0 /\ 64 * P * Q < Sq(R))
          ELSE L < 0 /\ (R < 0 \/ 64 * P * Q > Sq(R))

\* a <= b
DistLeq(u, v) == ~IsNaN(u.n) /\ ~IsNaN(v.n) /\ ~DistLess(v, u)

\* the distance num / den of a threshold constant
Threshold(num, den) == [n |-> Sq(num), d |-> Sq(den), b |-> 0]

\* u < 1e-9 and the like: on these values, u = 0
DistZero(u) == ~IsNaN(u.n) /\ ~DistLess(Threshold(0, 1), u)

LineDistanceFrom(x, y, x1, y1, x2, y2) ==
  LET dx == x2 - x1
      dy == y2 - y1
  IN IF Sq(dx) + Sq(dy) = 0 THEN HypotDist(x, y, x1, y1)
     ELSE [n |-> Sq(dx * (y - y1) - dy * (x - x1)), d |-> Sq(dx) + Sq(dy), b |-> 0]

\* hypot(x - (x1 + t dx), y - (y1 + t dy)) for t = tn / len2
DistAtParam(x, y, x1, y1, dx, dy, tn, len2) ==
  [n |-> Sq(len2 * (x - x1) - tn * dx) + Sq(len2 * (y - y1) - tn * dy),
   d |-> Sq(len2), b |-> 0]

SegmentDistanceFrom(x, y, x1, y1, x2, y2) ==
  LET dx == x2 - x1
      dy == y2 - y1
      len2 == Sq(dx) + Sq(dy)
      tn == (x - x1) * dx + (y - y1) * dy
  IN IF len2 = 0 THEN HypotDist(x, y, x1, y1)
     ELSE IF tn < 0 THEN HypotDist(x, y, x1, y1)
     ELSE IF tn > len2 THEN HypotDist(x, y, x2, y2)
     ELSE DistAtParam(x, y, x1, y1, dx, dy, tn, len2)

RayDistanceFrom(x, y, x1, y1, x2, y2) ==
  LET dx == x2 - x1
      dy == y2 - y1
      len2 == Sq(dx) + Sq(dy)
      tn == (x - x1) * dx + (y - y1) * dy
  IN IF len2 = 0 THEN HypotDist(x, y, x1, y1)
     ELSE IF tn < 0 THEN HypotDist(x, y, x1, y1)
     ELSE DistAtParam(x, y, x1, y1, dx, dy, tn, len2)

CircleDistanceFrom(x, y, cx, cy, r2) == [n |-> Sq(x - cx) + Sq(y - cy), d |-> 1, b |-> r2]

\* Angle.closerRay
closerRay(o, x, y) ==
  IF DistLeq(RayDistanceFrom(x, y, o.vx, o.vy, o.x1, o.y1), RayDistanceFrom(x, y, o.vx, o.vy, o.x2, o.y2))
    THEN 1 ELSE 2

\* Angle.getRay
getRay(o, arm) ==
  IF arm = 1 THEN LineObj("ray", o.vx, o.vy, o.x1, o.y1)
  ELSE LineObj("ray", o.vx, o.vy, o.x2, o.y2)

\* obj.distanceFrom(x, y)
distanceFrom(o, x, y) ==
  CASE o.type = "point" ->
         IF IsNaN(o.x) \/ IsNaN(o.y) THEN NaNDist ELSE HypotDist(x, y, o.x, o.y)
    [] o.type = "line" -> LineDistanceFrom(x, y, o.x1, o.y1, o.x2, o.y2)
    [] o.type = "ray" -> RayDistanceFrom(x, y, o.x1, o.y1, o.x2, o.y2)
    [] o.type = "segment" -> SegmentDistanceFrom(x, y, o.x1, o.y1, o.x2, o.y2)
    [] o.type = "angle" ->
         LET r == getRay(o, closerRay(o, x, y))
         IN RayDistanceFrom(x, y, r.x1, r.y1, r.x2, r.y2)
    [] o.type = "circle" -> CircleDistanceFrom(x, y, o.cx, o.cy, o.r2)


-----------------------------------------------------------------------------
(* Hit testing (geometry-plane/hit, as compiled in src/client/geometry-plane.js) *)

HIT_THRESHOLD == Threshold(6, 10)

\* HIT_THRESHOLD + 1
HitThresholdPlusOne == Threshold(16, 10)

\* HIT_THRESHOLD * POINT_HIT_FACTOR
PointHitRange == Threshold(84, 100)

ENDPOINT_SELECT_GAP == Threshold(35, 100)

\* An object entry of the plane; name is Undefined until a label is typed.
Entry(obj, name) == [obj |-> obj, name |-> name]

\* Math.round on an integer
Round(v) == v

snapToGrid(x, y) == P2(Round(x), Round(y))

RECURSIVE NearestPointFrom(_, _, _, _, _)
\* the forEach of findExistingPointNear from entry i on
NearestPointFrom(entries, i, x, y, best) ==
  IF i > Len(entries) THEN best
  ELSE LET obj == entries[i].obj
           d == distanceFrom(obj, x, y)
       IN IF obj.type = "point" /\ DistLess(d, best.dist)
            THEN NearestPointFrom(entries, i + 1, x, y, [dist |-> d, point |-> <<obj>>])
            ELSE NearestPointFrom(entries, i + 1, x, y, best)

\* <<>> for null, <<point>> for the point found
findExistingPointNear(entries, x, y) ==
  LET best == NearestPointFrom(entries, 1, x, y, [dist |-> HitThresholdPlusOne, point |-> <<>>])
  IN IF DistLeq(best.dist, HIT_THRESHOLD) THEN best.point ELSE <<>>

\* one turn of the forEach of findObjectAt: best after the object obj at the
\* 0-based index, d its distance from (x, y)
BetterOf(obj, index, x, y, d, best) ==
  LET pointInRange == obj.type = "point" /\ DistLeq(d, PointHitRange)
      otherInRange == DistLeq(best.dist, HIT_THRESHOLD)
      preferPointOverLine ==
        /\ pointInRange /\ otherInRange
        /\ best.obj # <<>> /\ best.obj[1].type # "point"
  IN IF DistLess(d, best.dist) \/ preferPointOverLine
       THEN [dist |-> d,
             obj |-> <<IF obj.type = "angle" THEN getRay(obj, closerRay(obj, x, y)) ELSE obj>>,
             index |-> index]
       ELSE best

RECURSIVE BestObjectFrom(_, _, _, _, _)
\* the forEach of findObjectAt from entry i on; index is 0-based
BestObjectFrom(entries, i, x, y, best) ==
  IF i > Len(entries) THEN best
  ELSE BestObjectFrom(entries, i + 1, x, y,
                      BetterOf(entries[i].obj, i - 1, x, y,
                               distanceFrom(entries[i].obj, x, y), best))

\* objectEntries.find(point at (ex, ey)): 0 when none, else its 1-based place
PointEntryAt(entries, ex, ey) ==
  LET at == {i \in 1..Len(entries) :
               /\ entries[i].obj.type = "point"
               /\ entries[i].obj.x = ex /\ entries[i].obj.y = ey}
  IN IF at = {} THEN 0 ELSE CHOOSE i \in at : \A j \in at : i <= j

\* the place (1-based) of the point entry at the endpoint (ex, ey) of the
\* hit line when the pointer is within ENDPOINT_SELECT_GAP of it, else 0
EndpointEntry(entries, x, y, ex, ey) ==
  IF DistLeq(HypotDist(x, y, ex, ey), ENDPOINT_SELECT_GAP)
    THEN PointEntryAt(entries, ex, ey) ELSE 0

\* the tail of findObjectAt: the endpoint point found at end1 or end2 (0 for
\* none) is the hit in place of the line
EndpointOrHit(entries, hit, end1, end2) ==
  IF end1 # 0 THEN << [obj |-> entries[end1].obj, index |-> end1 - 1] >>
  ELSE IF end2 # 0 THEN << [obj |-> entries[end2].obj, index |-> end2 - 1] >>
  ELSE <<hit>>

\* findObjectAt after its forEach left best
HitOfBest(entries, x, y, best) ==
  IF DistLess(HIT_THRESHOLD, best.dist) \/ best.obj = <<>> THEN <<>>
  ELSE IF best.obj[1].type \in LineLikeTypes
    THEN EndpointOrHit(entries, [obj |-> best.obj[1], index |-> best.index],
                       EndpointEntry(entries, x, y, best.obj[1].x1, best.obj[1].y1),
                       EndpointEntry(entries, x, y, best.obj[1].x2, best.obj[1].y2))
  ELSE << [obj |-> best.obj[1], index |-> best.index] >>

\* <<>> for null, <<[obj, index]>> for the hit
findObjectAt(entries, x, y) ==
  HitOfBest(entries, x, y,
            BestObjectFrom(entries, 1, x, y,
                           [dist |-> HitThresholdPlusOne, obj |-> <<>>, index |-> -1]))

sameSelectedObject(a, b) ==
  IF a.type # b.type THEN FALSE
  ELSE CASE a.type = "point" -> a.x = b.x /\ a.y = b.y
         [] a.type = "circle" -> a.cx = b.cx /\ a.cy = b.cy /\ a.r2 = b.r2
         [] a.type \in LineLikeTypes ->
              a.x1 = b.x1 /\ a.y1 = b.y1 /\ a.x2 = b.x2 /\ a.y2 = b.y2
         [] OTHER -> FALSE


-----------------------------------------------------------------------------
(* Closest points and intersections (src/client/geometry-math.ts) *)

Abs(v) == IF v < 0 THEN -v ELSE v

IsSquare(n) == \E k \in 0..n : k * k = n

Sqrt(n) == CHOOSE k \in 0..n : k * k = n

\* (x1 + t dx, y1 + t dy) for t = tn / den, den # 0
PointAtParam(x1, y1, dx, dy, tn, den) ==
  LET m == Abs(den)
      u == IF den < 0 THEN -tn ELSE tn
  IN IF (u * dx) % m = 0 /\ (u * dy) % m = 0
       THEN Exactly(P2(x1 + (u * dx) \div m, y1 + (u * dy) \div m))
       ELSE Unrepresentable

closestPointOnLine(x, y, x1, y1, x2, y2) ==
  LET dx == x2 - x1
      dy == y2 - y1
      len2 == Sq(dx) + Sq(dy)
      tn == (x - x1) * dx + (y - y1) * dy
  IN IF len2 = 0 THEN Exactly(P2(x1, y1)) ELSE PointAtParam(x1, y1, dx, dy, tn, len2)

closestPointOnSegment(x, y, x1, y1, x2, y2) ==
  LET dx == x2 - x1
      dy == y2 - y1
      len2 == Sq(dx) + Sq(dy)
      tn == (x - x1) * dx + (y - y1) * dy
      clamped == IF tn < 0 THEN 0 ELSE IF tn > len2 THEN len2 ELSE tn
  IN IF len2 = 0 THEN Exactly(P2(x1, y1)) ELSE PointAtParam(x1, y1, dx, dy, clamped, len2)

closestPointOnRay(x, y, x1, y1, x2, y2) ==
  LET dx == x2 - x1
      dy == y2 - y1
      len2 == Sq(dx) + Sq(dy)
      tn == (x - x1) * dx + (y - y1) * dy
  IN IF len2 = 0 THEN Exactly(P2(x1, y1))
     ELSE PointAtParam(x1, y1, dx, dy, IF tn < 0 THEN 0 ELSE tn, len2)

\* r dx / d is an integer when the pointer is on the circle, or when r and d
\* are integers and d divides r dx
closestPointOnCircle(x, y, cx, cy, r2) ==
  LET dx == x - cx
      dy == y - cy
      d2 == Sq(dx) + Sq(dy)
  IN IF d2 = 0
       THEN IF IsSquare(r2) THEN Exactly(P2(cx + Sqrt(r2), cy)) ELSE Unrepresentable
     ELSE IF d2 = r2 THEN Exactly(P2(x, y))
     ELSE IF IsSquare(r2) /\ IsSquare(d2)
       THEN PointAtParam(cx, cy, dx, dy, Sqrt(r2), Sqrt(d2))
     ELSE Unrepresentable

\* the list of one position, or none of it when the position is not kept
OnePoint(p, keep) ==
  IF ~keep THEN Exactly(<<>>)
  ELSE IF p.ok THEN Exactly(<<p.value>>) ELSE Unrepresentable

\* 0 <= num / den
RatioNonNegative(num, den) == (den > 0 /\ num >= 0) \/ (den < 0 /\ num <= 0)

\* 0 <= num / den <= 1
RatioInUnit(num, den) ==
  (den > 0 /\ num >= 0 /\ num <= den) \/ (den < 0 /\ num <= 0 /\ num >= den)

\* denom, t and s of intersectLineLine, intersectLineSegment and
\* intersectSegmentSegment, as numerators over denom
LineLineParams(x1, y1, x2, y2, x3, y3, x4, y4) ==
  [denom |-> (x2 - x1) * (y4 - y3) - (y2 - y1) * (x4 - x3),
   t |-> (x3 - x1) * (y4 - y3) - (y3 - y1) * (x4 - x3),
   s |-> (x2 - x1) * (y3 - y1) - (y2 - y1) * (x3 - x1)]

intersectLineLine(x1, y1, x2, y2, x3, y3, x4, y4) ==
  LET r == LineLineParams(x1, y1, x2, y2, x3, y3, x4, y4)
  IN IF r.denom = 0 THEN Exactly(<<>>)
     ELSE OnePoint(PointAtParam(x1, y1, x2 - x1, y2 - y1, r.t, r.denom), TRUE)

intersectLineSegment(x1, y1, x2, y2, x3, y3, x4, y4) ==
  LET r == LineLineParams(x1, y1, x2, y2, x3, y3, x4, y4)
  IN IF r.denom = 0 THEN Exactly(<<>>)
     ELSE OnePoint(PointAtParam(x1, y1, x2 - x1, y2 - y1, r.t, r.denom),
                   RatioInUnit(r.s, r.denom))

intersectSegmentSegment(x1, y1, x2, y2, x3, y3, x4, y4) ==
  LET r == LineLineParams(x1, y1, x2, y2, x3, y3, x4, y4)
  IN IF r.denom = 0 THEN Exactly(<<>>)
     ELSE OnePoint(PointAtParam(x1, y1, x2 - x1, y2 - y1, r.t, r.denom),
                   RatioInUnit(r.t, r.denom) /\ RatioInUnit(r.s, r.denom))

\* det = 0 is the null of lineRayParams
lineRayParams(x1, y1, x2, y2, x3, y3, x4, y4) ==
  LET dx1 == x2 - x1
      dy1 == y2 - y1
      dx2 == x4 - x3
      dy2 == y4 - y3
  IN [det |-> dx2 * dy1 - dx1 * dy2,
      t |-> (y3 - y1) * dx2 - (x3 - x1) * dy2,
      s |-> dx1 * (y3 - y1) - dy1 * (x3 - x1),
      dx1 |-> dx1, dy1 |-> dy1]

intersectLineRay(x1, y1, x2, y2, x3, y3, x4, y4) ==
  LET r == lineRayParams(x1, y1, x2, y2, x3, y3, x4, y4)
  IN IF r.det = 0 THEN Exactly(<<>>)
     ELSE OnePoint(PointAtParam(x1, y1, r.dx1, r.dy1, r.t, r.det),
                   RatioNonNegative(r.s, r.det))

intersectSegmentRay(x1, y1, x2, y2, x3, y3, x4, y4) ==
  LET r == lineRayParams(x1, y1, x2, y2, x3, y3, x4, y4)
  IN IF r.det = 0 THEN Exactly(<<>>)
     ELSE OnePoint(PointAtParam(x1, y1, r.dx1, r.dy1, r.t, r.det),
                   RatioInUnit(r.t, r.det) /\ RatioNonNegative(r.s, r.det))

intersectRayRay(x1, y1, x2, y2, x3, y3, x4, y4) ==
  LET r == lineRayParams(x1, y1, x2, y2, x3, y3, x4, y4)
  IN IF r.det = 0 THEN Exactly(<<>>)
     ELSE OnePoint(PointAtParam(x1, y1, r.dx1, r.dy1, r.t, r.det),
                   RatioNonNegative(r.t, r.det) /\ RatioNonNegative(r.s, r.det))


\* r * r is r2 exactly when r is an integer; with a = 0 the root is 0 / 0
intersectLineCircle(x1, y1, x2, y2, cx, cy, r2) ==
  LET dx == x2 - x1
      dy == y2 - y1
      fx == x1 - cx
      fy == y1 - cy
      a == Sq(dx) + Sq(dy)
      b == 2 * (fx * dx + fy * dy)
      c == Sq(fx) + Sq(fy) - r2
      disc == Sq(b) - 4 * a * c
      p1 == PointAtParam(x1, y1, dx, dy, (-b) - Sqrt(disc), 2 * a)
      p2 == PointAtParam(x1, y1, dx, dy, (-b) + Sqrt(disc), 2 * a)
  IN IF a = 0 THEN Exactly(<<P2(NaN, NaN)>>)
     ELSE IF disc < 0 THEN Exactly(<<>>)
     ELSE IF ~IsSquare(r2) \/ ~IsSquare(disc) THEN Unrepresentable
     ELSE IF ~p1.ok \/ ~p2.ok THEN Unrepresentable
     ELSE IF disc = 0 THEN Exactly(<<p1.value>>)
     ELSE Exactly(<<p1.value, p2.value>>)

\* pts.filter(keep), pts a list of at most two positions
Filter2(pts, kept) ==
  IF Len(pts) = 0 THEN <<>>
  ELSE IF Len(pts) = 1 THEN (IF kept[1] THEN pts ELSE <<>>)
  ELSE (IF kept[1] THEN <<pts[1]>> ELSE <<>>) \o (IF kept[2] THEN <<pts[2]>> ELSE <<>>)

intersectSegmentCircle(x1, y1, x2, y2, cx, cy, r2) ==
  LET pts == intersectLineCircle(x1, y1, x2, y2, cx, cy, r2)
      dx == x2 - x1
      dy == y2 - y1
      len2 == Sq(dx) + Sq(dy)
      keep(p) == /\ ~IsNaN(p.x)
                 /\ LET tn == (p.x - x1) * dx + (p.y - y1) * dy
                    IN len2 # 0 /\ tn >= 0 /\ tn <= len2
  IN IF pts.ok THEN Exactly(Filter2(pts.value, [i \in 1..Len(pts.value) |-> keep(pts.value[i])])) ELSE Unrepresentable

intersectRayCircle(x1, y1, x2, y2, cx, cy, r2) ==
  LET pts == intersectLineCircle(x1, y1, x2, y2, cx, cy, r2)
      dx == x2 - x1
      dy == y2 - y1
      len2 == Sq(dx) + Sq(dy)
      keep(p) == /\ ~IsNaN(p.x)
                 /\ LET tn == (p.x - x1) * dx + (p.y - y1) * dy
                    IN len2 # 0 /\ tn >= 0
  IN IF pts.ok THEN Exactly(Filter2(pts.value, [i \in 1..Len(pts.value) |-> keep(pts.value[i])])) ELSE Unrepresentable

\* The circles are apart, nested or the same circle: no position; any other
\* pair computes positions through square roots.
intersectCircleCircle(cx1, cy1, ra2, cx2, cy2, rb2) ==
  LET d2 == Sq(cx2 - cx1) + Sq(cy2 - cy1)
      apart == d2 - ra2 - rb2 > 0 /\ Sq(d2 - ra2 - rb2) > 4 * ra2 * rb2
      nested == ra2 + rb2 - d2 > 0 /\ Sq(ra2 + rb2 - d2) > 4 * ra2 * rb2
  IN IF apart \/ nested THEN Exactly(<<>>)
     ELSE IF d2 = 0 /\ ra2 = rb2 THEN Exactly(<<>>)
     ELSE Unrepresentable

intersectTwoObjects(obj1, obj2) ==
  LET t1 == obj1.type
      t2 == obj2.type
      pt == IF t1 = "point" THEN obj1 ELSE obj2
      other == IF t1 = "point" THEN obj2 ELSE obj1
      one == Exactly(<<P2(pt.x, pt.y)>>)
      line(f(_, _, _, _, _, _, _, _), a, b) ==
        f(a.x1, a.y1, a.x2, a.y2, b.x1, b.y1, b.x2, b.y2)
      circle(f(_, _, _, _, _, _, _), a, b) ==
        f(a.x1, a.y1, a.x2, a.y2, b.cx, b.cy, b.r2)
  IN CASE t1 = "point" /\ t2 = "point" ->
            IF obj1.x = obj2.x /\ obj1.y = obj2.y THEN Exactly(<<P2(obj1.x, obj1.y)>>)
            ELSE Exactly(<<>>)
       [] (t1 = "point") # (t2 = "point") ->
            IF other.type \in LineLikeTypes \cup {"circle"}
                 /\ DistZero(distanceFrom(other, pt.x, pt.y))
              THEN one ELSE Exactly(<<>>)
       [] t1 = "line" /\ t2 = "line" -> line(intersectLineLine, obj1, obj2)
       [] t1 = "line" /\ t2 = "segment" -> line(intersectLineSegment, obj1, obj2)
       [] t1 = "line" /\ t2 = "ray" -> line(intersectLineRay, obj1, obj2)
       [] t1 = "line" /\ t2 = "circle" -> circle(intersectLineCircle, obj1, obj2)
       [] t1 = "segment" /\ t2 = "segment" -> line(intersectSegmentSegment, obj1, obj2)
       [] t1 = "segment" /\ t2 = "ray" -> line(intersectSegmentRay, obj1, obj2)
       [] t1 = "segment" /\ t2 = "circle" -> circle(intersectSegmentCircle, obj1, obj2)
       [] t1 = "ray" /\ t2 = "ray" -> line(intersectRayRay, obj1, obj2)
       [] t1 = "ray" /\ t2 = "circle" -> circle(intersectRayCircle, obj1, obj2)
       [] t1 = "circle" /\ t2 = "circle" ->
            intersectCircleCircle(obj1.cx, obj1.cy, obj1.r2, obj2.cx, obj2.cy, obj2.r2)
       [] t1 = "segment" /\ t2 = "line" -> line(intersectLineSegment, obj2, obj1)
       [] t1 = "ray" /\ t2 = "line" -> line(intersectLineRay, obj2, obj1)
       [] t1 = "circle" /\ t2 = "line" -> circle(intersectLineCircle, obj2, obj1)
       [] t1 = "ray" /\ t2 = "segment" -> line(intersectSegmentRay, obj2, obj1)
       [] t1 = "circle" /\ t2 = "segment" -> circle(intersectSegmentCircle, obj2, obj1)
       [] t1 = "circle" /\ t2 = "ray" -> circle(intersectRayCircle, obj2, obj1)
       [] OTHER -> Exactly(<<>>)


-----------------------------------------------------------------------------
(* Plane handlers (geometry-plane.ts, geometry-plane/state.ts)              *)
(*                                                                         *)
(* A handler is an operator from the state object to [ok, state, logged]:  *)
(* the state it leaves, the entries it passes to pushLog in order, and     *)
(* ok = FALSE when it computes a position that is not representable.       *)

Handled(st, logged) == [ok |-> TRUE, state |-> st, logged |-> logged]

NotHandled(st) == [ok |-> FALSE, state |-> st, logged |-> <<>>]

\* arr.splice(i, 1) with a 0-based index i
Splice(arr, i) == [j \in 1..(Len(arr) - 1) |-> IF j <= i THEN arr[j] ELSE arr[j + 1]]

\* the point tool's position on the object under the pointer
PositionOn(o, x, y) ==
  CASE o.type = "line" -> closestPointOnLine(x, y, o.x1, o.y1, o.x2, o.y2)
    [] o.type = "ray" -> closestPointOnRay(x, y, o.x1, o.y1, o.x2, o.y2)
    [] o.type = "segment" -> closestPointOnSegment(x, y, o.x1, o.y1, o.x2, o.y2)
    [] o.type = "circle" -> closestPointOnCircle(x, y, o.cx, o.cy, o.r2)
    [] OTHER -> Exactly(snapToGrid(x, y))

\* the tail of performClickAt: the object a full list of pending points makes
ObjectFrom(tool, pts) ==
  CASE tool = "point" -> <<PointObj(pts[1].x, pts[1].y)>>
    [] tool \in LineLikeTypes -> <<LineObj(tool, pts[1].x, pts[1].y, pts[2].x, pts[2].y)>>
    [] tool = "angle" ->
         <<AngleObj(pts[1].x, pts[1].y, pts[2].x, pts[2].y, pts[3].x, pts[3].y)>>
    [] tool = "circle" ->
         LET r2 == Sq(pts[2].x - pts[1].x) + Sq(pts[2].y - pts[1].y)
         IN IF r2 > 0 THEN <<CircleObj(pts[1].x, pts[1].y, r2)>> ELSE <<>>
    [] OTHER -> <<>>

\* the intersection branch of performClickAt once the two objects differ:
\* the points of intersectTwoObjects join the entries
IntersectionAdded(st, first, second, points) ==
  IF ~points.ok THEN NotHandled(st)
  ELSE Handled([st EXCEPT
                  !.objectEntries =
                    st.objectEntries
                      \o [k \in 1..Len(points.value) |->
                            Entry(PointObj(points.value[k].x, points.value[k].y), Undefined)],
                  !.pendingIntersectionObjects = <<>>],
               << [op |-> "intersection",
                   objects |-> <<first, second>>,
                   added |-> [k \in 1..Len(points.value) |->
                                PointObj(points.value[k].x, points.value[k].y)]] >>)

\* the end of performClickAt: made is the object of the pending points,
\* <<>> when the tool makes none of them
MadeOf(st, made) ==
  Handled([st EXCEPT !.pendingPoints = <<>>,
                     !.objectEntries =
                       IF made = <<>> THEN st.objectEntries
                       ELSE Append(st.objectEntries, Entry(made[1], Undefined))],
          IF made = <<>> THEN <<>>
          ELSE << [op |-> "add", tool |-> st.currentTool, geom |-> made[1]] >>)

\* the tail of performClickAt: the point p joins the pending points, and
\* once they are as many as the tool needs the object is made
PointPushed(st, p) ==
  IF Len(st.pendingPoints) + 1
       < (IF st.currentTool = "point" THEN 1 ELSE IF st.currentTool = "angle" THEN 3 ELSE 2)
    THEN Handled([st EXCEPT !.pendingPoints = Append(st.pendingPoints, p)], <<>>)
    ELSE MadeOf(st, ObjectFrom(st.currentTool, Append(st.pendingPoints, p)))

\* performClickAt after findObjectAt gave hit, existing being what
\* findExistingPointNear gives at the pointer
ClickWithHit(st, pt, hit, existing) ==
  LET entries == st.objectEntries
      tool == st.currentTool
      sel == st.selectedObjectIndex
      \* if (!hit) state.selectedObjectIndex = null
      st1 == IF hit = <<>> THEN [st EXCEPT !.selectedObjectIndex = <<>>] ELSE st
      pending == st.pendingIntersectionObjects
      position == IF hit # <<>> /\ hit[1].obj.type # "point"
                    THEN PositionOn(hit[1].obj, pt.x, pt.y)
                    ELSE Exactly(snapToGrid(pt.x, pt.y))
  IN IF tool = "remove"
       THEN IF hit = <<>> THEN Handled(st, <<>>)
            ELSE LET i == hit[1].index
                 IN Handled([st EXCEPT
                               !.objectEntries = Splice(entries, i),
                               !.selectedObjectIndex =
                                 IF sel = <<i>> THEN <<>>
                                 ELSE IF sel # <<>> /\ sel[1] > i THEN <<sel[1] - 1>>
                                 ELSE sel,
                               !.pendingIntersectionObjects = <<>>],
                            << [op |-> "remove", index |-> i, geom |-> entries[i + 1].obj] >>)
     ELSE IF tool = "intersection"
       THEN IF hit = <<>> THEN Handled(st1, <<>>)
            ELSE IF pending = <<>>
              THEN Handled([st1 EXCEPT !.pendingIntersectionObjects = <<hit[1]>>], <<>>)
            ELSE IF sameSelectedObject(pending[1].obj, hit[1].obj) THEN Handled(st1, <<>>)
            ELSE IntersectionAdded(st1, pending[1].obj, hit[1].obj,
                                   intersectTwoObjects(pending[1].obj, hit[1].obj))
     ELSE IF tool = "point" /\ ~position.ok THEN NotHandled(st)
     ELSE IF tool # "point" /\ existing = <<>> THEN Handled(st1, <<>>)
     ELSE PointPushed(st1, IF tool = "point" THEN position.value
                           ELSE P2(existing[1].x, existing[1].y))

performClickAt(st, pt) ==
  ClickWithHit(st, pt, findObjectAt(st.objectEntries, pt.x, pt.y),
               findExistingPointNear(st.objectEntries, pt.x, pt.y))

setTool(st, tool) ==
  Handled([st EXCEPT !.currentTool = tool, !.pendingPoints = <<>>,
                     !.pendingIntersectionObjects = <<>>], <<>>)

clearAll(st) ==
  Handled([st EXCEPT !.objectEntries = <<>>, !.pendingPoints = <<>>,
                     !.pendingIntersectionObjects = <<>>, !.selectedObjectIndex = <<>>],
          << [op |-> "clear"] >>)

\* the input listener of the label field
labelInput(st, value) ==
  LET sel == st.selectedObjectIndex
  IN IF sel = <<>> \/ sel[1] < 0 \/ sel[1] >= Len(st.objectEntries) THEN Handled(st, <<>>)
     ELSE Handled([st EXCEPT !.objectEntries[sel[1] + 1].name = value],
                  << [op |-> "label", index |-> sel[1], name |-> value] >>)

\* the Enter key and the Done button of the label field
labelDone(st) == Handled([st EXCEPT !.selectedObjectIndex = <<>>], <<>>)

\* handlePlaneDblClick after findObjectAt gave hit
DblClickWithHit(st, hit) ==
  IF hit # <<>> /\ hit[1].obj.type = "point"
    THEN Handled([st EXCEPT !.selectedObjectIndex = <<hit[1].index>>], <<>>)
    ELSE Handled(st, <<>>)

handlePlaneDblClick(st, pt) == DblClickWithHit(st, findObjectAt(st.objectEntries, pt.x, pt.y))


-----------------------------------------------------------------------------
(* Snapshot, log lines and replay (state.ts, logger.js, validate/replay.js) *)

\* name?.trim() || undefined
TrimmedName(name) ==
  IF name = Undefined THEN Undefined
  ELSE IF trim(name) = "" THEN Undefined ELSE trim(name)

\* The geometry and the name of each entry; labelAngle is never set by these
\* handlers.
getPlaneStateSnapshot(st) ==
  [i \in 1..Len(st.objectEntries) |->
     [geom |-> st.objectEntries[i].obj, name |-> TrimmedName(st.objectEntries[i].name)]]

\* JSON.stringify of a number
JsonNumber(v) == IF IsNaN(v) THEN JsonNull ELSE v

JsonGeom(g) ==
  CASE g.type = "point" -> PointObj(JsonNumber(g.x), JsonNumber(g.y))
    [] OTHER -> g

\* The line JSON.stringify(entry) writes, kept as the value JSON.parse reads
\* back from it.
JsonStringify(entry) ==
  CASE entry.op \in {"add", "remove"} -> [entry EXCEPT !.geom = JsonGeom(entry.geom)]
    [] entry.op = "intersection" ->
         [entry EXCEPT !.objects = [i \in 1..Len(entry.objects) |-> JsonGeom(entry.objects[i])],
                       !.added = [i \in 1..Len(entry.added) |-> JsonGeom(entry.added[i])]]
    [] OTHER -> entry

VALID_OPS == {"add", "remove", "intersection", "clear", "label"}

isOperationLogEntry(entry) == entry.op \in VALID_OPS

\* a replayed entry: name is Undefined until a label entry sets it
Replayed(geom) == [geom |-> geom, name |-> Undefined]

applyEntry(st, entry) ==
  CASE entry.op = "add" -> Append(st, Replayed(entry.geom))
    [] entry.op = "remove" ->
         IF entry.index >= 0 /\ entry.index < Len(st) THEN Splice(st, entry.index) ELSE st
    [] entry.op = "intersection" ->
         st \o [i \in 1..Len(entry.added) |-> Replayed(entry.added[i])]
    [] entry.op = "clear" -> <<>>
    [] entry.op = "label" ->
         IF entry.index >= 0 /\ entry.index < Len(st)
           THEN [st EXCEPT ![entry.index + 1].name = TrimmedName(entry.name)]
           ELSE st
    [] OTHER -> st

RECURSIVE ReplayFrom(_, _, _)
\* the loop of replayLogFromString from line i on
ReplayFrom(lines, i, st) ==
  IF i > Len(lines) THEN st
  ELSE IF isOperationLogEntry(lines[i]) THEN ReplayFrom(lines, i + 1, applyEntry(st, lines[i]))
  ELSE ReplayFrom(lines, i + 1, st)

\* text is the list of its lines
replayLogFromString(text) == ReplayFrom(text, 1, <<>>)

\* the lines pushLog hands to logAction for a list of entries
LogLines(entries) == [i \in 1..Len(entries) |-> JsonStringify(entries[i])]

-----------------------------------------------------------------------------
(* Plane actions *)

\* the entries the handlers may log in a behaviour
MaxLog == 2

\* pointer positions
ClickPoints == {P2(x, y) : x \in 0..1, y \in 0..1}

ToolTypes == {"point", "line", "ray", "segment", "angle", "circle", "intersection", "remove"}

\* the values typed into the label field
LabelValues == {"A", " A", " ", "B"}

\* pushLog of each logged entry: the entry joins the log and a POST /log
\* request carrying its line starts.
PushLog(logged) ==
  /\ Len(logged) <= budget
  /\ budget' = budget - Len(logged)
  /\ operationLog' = operationLog \o logged
  /\ requests' = requests \cup
       {[seq |-> Len(operationLog) + k, line |-> JsonStringify(logged[k])] :
          k \in 1..Len(logged)}

\* The result h of a handler takes effect.
Apply(h) ==
  /\ h.ok
  /\ state' = h.state
  /\ PushLog(h.logged)

\* handlePlaneClick: a click on a point waits CLICK_DELAY_MS, any other
\* click is performed at once; either way an earlier timer is dropped.
HandlePlaneClick(points) ==
  \E pt \in points :
    \E hit \in {findObjectAt(state.objectEntries, pt.x, pt.y)} :
      IF hit # <<>> /\ hit[1].obj.type = "point"
        THEN /\ clickDelayTimeout' = <<pt>>
             /\ UNCHANGED <<state, operationLog, requests, budget>>
        ELSE /\ clickDelayTimeout' = <<>>
             /\ \E h \in {performClickAt(
                              IF hit = <<>> THEN [state EXCEPT !.selectedObjectIndex = <<>>]
                              ELSE state, pt)} : Apply(h)

\* the timer of handlePlaneClick fires
ClickDelayElapsed ==
  /\ clickDelayTimeout # <<>>
  /\ clickDelayTimeout' = <<>>
  /\ \E h \in {performClickAt(state, clickDelayTimeout[1])} : Apply(h)

HandlePlaneDblClick(points) ==
  \E pt \in points :
    /\ clickDelayTimeout' = <<>>
    /\ \E h \in {handlePlaneDblClick(state, pt)} : Apply(h)

SetTool(tools) ==
  \E tool \in tools :
    /\ Apply(setTool(state, tool))
    /\ UNCHANGED clickDelayTimeout

ClearAll ==
  /\ Apply(clearAll(state))
  /\ UNCHANGED clickDelayTimeout

LabelInput(values) ==
  \E value \in values :
    /\ Apply(labelInput(state, value))
    /\ UNCHANGED clickDelayTimeout

LabelDone ==
  /\ Apply(labelDone(state))
  /\ UNCHANGED clickDelayTimeout

\* the construction handlers, on the given pointer positions, tools and
\* label values
ConstructWith(points, tools, values) ==
  \/ HandlePlaneClick(points) \/ ClickDelayElapsed \/ HandlePlaneDblClick(points)
  \/ SetTool(tools) \/ ClearAll \/ LabelInput(values) \/ LabelDone

Construct == ConstructWith(ClickPoints, ToolTypes, LabelValues)


-----------------------------------------------------------------------------
(* Sessions: the plane after a list of events, each handled to its end *)

ClickAt(x, y) == [ev |-> "click", pt |-> P2(x, y)]

DblClickAt(x, y) == [ev |-> "dblclick", pt |-> P2(x, y)]

Tool(tool) == [ev |-> "tool", tool |-> tool]

Type(value) == [ev |-> "label", value |-> value]

\* the handler of one event; a click on a point includes its delay
Handle(st, e) ==
  CASE e.ev = "click" ->
         performClickAt(IF findObjectAt(st.objectEntries, e.pt.x, e.pt.y) = <<>>
                          THEN [st EXCEPT !.selectedObjectIndex = <<>>] ELSE st,
                        e.pt)
    [] e.ev = "dblclick" -> handlePlaneDblClick(st, e.pt)
    [] e.ev = "tool" -> setTool(st, e.tool)
    [] e.ev = "label" -> labelInput(st, e.value)
    [] e.ev = "clear" -> clearAll(st)

\* the session w continued by the handler result h
Then(w, h) == [state |-> h.state, logged |-> w.logged \o h.logged]

RECURSIVE RunFrom(_, _, _)
\* [state, logged] after the events from the i-th on
RunFrom(events, i, w) ==
  IF i > Len(events) THEN w
  ELSE RunFrom(events, i + 1, Then(w, Handle(w.state, events[i])))

Run(events) == RunFrom(events, 1, [state |-> InitialState, logged |-> <<>>])

\* The plane after a session, every request of which has reached the server
\* in order.
PlaneAfter(events) ==
  \E w \in {Run(events)} :
    /\ state = w.state
    /\ clickDelayTimeout = <<>>
    /\ operationLog = w.logged
    /\ requests = {}
    /\ serverLog = LogLines(w.logged)
    /\ budget = MaxLog


-----------------------------------------------------------------------------
(* Written outcomes (src/client/proof/statements.ts)                        *)
(*                                                                         *)
(* A text is the sequence of its characters, each a string: a letter, a    *)
(* digit or a punctuation mark is itself, and a symbol outside ASCII is    *)
(* the name below.                                                         *)

NEQ == "#neq"

ELEMENT == "#in"

CUP == "#cup"

CAP == "#cap"

EXISTS == "#exists"

SUB1 == "#sub1"

ANGLE == "#angle"

DEGREE == "#deg"

LEQ == "#leq"

GEQ == "#geq"

DELTA == "#Delta"

CONG == "#cong"

MIDDOT == "#middot"

Uppers ==
  <<"A", "B", "C", "D", "E", "F", "G", "H", "I", "J", "K", "L", "M",
    "N", "O", "P", "Q", "R", "S", "T", "U", "V", "W", "X", "Y", "Z">>

Lowers ==
  <<"a", "b", "c", "d", "e", "f", "g", "h", "i", "j", "k", "l", "m",
    "n", "o", "p", "q", "r", "s", "t", "u", "v", "w", "x", "y", "z">>

Digits == <<"0", "1", "2", "3", "4", "5", "6", "7", "8", "9">>

Range(f) == {f[i] : i \in DOMAIN f}

\* [A-Za-z]
IsLetter(c) == c \in Range(Uppers) \cup Range(Lowers)

\* \d
IsDigit(c) == c \in Range(Digits)

\* \w and the tail class [A-Za-z0-9_] of a name
IsWordChar(c) == IsLetter(c) \/ IsDigit(c) \/ c = "_"

\* \s
IsSpace(c) == c = " "

\* the character classes as sets
WordChars == Range(Uppers) \cup Range(Lowers) \cup Range(Digits) \cup {"_"}

DigitChars == Range(Digits)

SpaceChars == {" "}

\* toLowerCase
ToLower(t) ==
  [i \in 1..Len(t) |->
     IF t[i] \in Range(Uppers) THEN Lowers[CHOOSE k \in 1..26 : Uppers[k] = t[i]] ELSE t[i]]

\* t.includes(sub)
Includes(t, sub) == \E i \in 1..(Len(t) - Len(sub) + 1) : SubSeq(t, i, i + Len(sub) - 1) = sub

\* t.trim()
Trim(t) ==
  LET kept == {i \in 1..Len(t) : ~IsSpace(t[i])}
  IN IF kept = {} THEN <<>>
     ELSE SubSeq(t, CHOOSE i \in kept : \A j \in kept : i <= j,
                    CHOOSE i \in kept : \A j \in kept : j <= i)

RECURSIVE Join(_)
\* the string of a sequence of characters
Join(w) == IF w = <<>> THEN "" ELSE Head(w) \o Join(Tail(w))

\* the end of the longest run of characters in class from position i on
\* (i - 1 when t[i] is not in class)
RunEnd(t, i, class) ==
  LET stops == {j \in i..Len(t) : t[j] \notin class}
  IN IF stops = {} THEN Len(t) ELSE (CHOOSE j \in stops : \A k \in stops : j <= k) - 1

RECURSIVE NamesFromPosition(_, _)
\* the matches of /[A-Za-z][A-Za-z0-9_]*/g from position i on, as [from, to]
NamesFromPosition(t, i) ==
  IF i > Len(t) THEN <<>>
  ELSE IF IsLetter(t[i])
    THEN << [from |-> i, to |-> RunEnd(t, i, WordChars)] >>
           \o NamesFromPosition(t, RunEnd(t, i, WordChars) + 1)
  ELSE NamesFromPosition(t, i + 1)

\* the names as character sequences
extractPointNames(t) ==
  LET m == NamesFromPosition(t, 1)
  IN [k \in 1..Len(m) |-> SubSeq(t, m[k].from, m[k].to)]

\* /^[A-Za-z]{n}$/.test(w)
Letters(w, n) == Len(w) = n /\ \A i \in 1..n : IsLetter(w[i])

\* the value of a run of digits
RECURSIVE DigitsValue(_)
DigitsValue(w) ==
  IF w = <<>> THEN 0
  ELSE 10 * DigitsValue(SubSeq(w, 1, Len(w) - 1))
         + ((CHOOSE k \in 1..10 : Digits[k] = w[Len(w)]) - 1)


\* the maximal runs of \w characters from position i on, as [from, to]
RECURSIVE WordRunsFrom(_, _)
WordRunsFrom(t, i) ==
  IF i > Len(t) THEN <<>>
  ELSE IF IsWordChar(t[i])
    THEN << [from |-> i, to |-> RunEnd(t, i, WordChars)] >>
           \o WordRunsFrom(t, RunEnd(t, i, WordChars) + 1)
  ELSE WordRunsFrom(t, i + 1)

\* <<>> for no match, else <<[point, seg]>>: the groups of the first of
\*   /let\s+(\w+)\s+be\s+midpoint\s+of\s+(\w+)/i
\*   /(\w+)\s+is\s+midpoint\s+of\s+(\w+)/i
\*   /(\w+)\s+be\s+midpoint\s+of\s+(\w+)/i
\* that matches.  Between two runs of \w characters a match needs spaces
\* only, and a literal followed by \s+ ends its run.
MidpointMatch(t) ==
  LET runs == WordRunsFrom(t, 1)
      word(k) == ToLower(SubSeq(t, runs[k].from, runs[k].to))
      spaced(k) == \A i \in (runs[k].to + 1)..(runs[k + 1].from - 1) : IsSpace(t[i])
      tail(k, verb) ==
        /\ k + 3 <= Len(runs)
        /\ spaced(k) /\ spaced(k + 1) /\ spaced(k + 2)
        /\ word(k) = verb
        /\ word(k + 1) = <<"m", "i", "d", "p", "o", "i", "n", "t">>
        /\ word(k + 2) = <<"o", "f">>
      endsWithLet(k) ==
        Len(word(k)) >= 3 /\ SubSeq(word(k), Len(word(k)) - 2, Len(word(k))) = <<"l", "e", "t">>
      letAt == {k \in 1..Len(runs) :
                  /\ k + 5 <= Len(runs) /\ endsWithLet(k) /\ spaced(k) /\ spaced(k + 1)
                  /\ tail(k + 2, <<"b", "e">>)}
      verbAt(verb) == {k \in 1..Len(runs) : k + 4 <= Len(runs) /\ spaced(k) /\ tail(k + 1, verb)}
      first(S) == CHOOSE k \in S : \A j \in S : k <= j
      groups(k) == [point |-> SubSeq(t, runs[k].from, runs[k].to),
                    seg |-> SubSeq(t, runs[k + 4].from, runs[k + 4].to)]
  IN IF letAt # {} THEN <<groups(first(letAt) + 1)>>
     ELSE IF verbAt(<<"i", "s">>) # {} THEN <<groups(first(verbAt(<<"i", "s">>)))>>
     ELSE IF verbAt(<<"b", "e">>) # {} THEN <<groups(first(verbAt(<<"b", "e">>)))>>
     ELSE <<>>

\* <<>> for no match of /(\d+(?:\.\d+)?)\s*°/, else <<[whole, fraction]>>:
\* the digits before and after the point of the first match
DegreeMatch(t) ==
  LET afterSpaces(i) == RunEnd(t, i, SpaceChars) + 1
      degreeAt(i) == i <= Len(t) /\ t[i] = DEGREE
      e1(s) == RunEnd(t, s, DigitChars)
      pointed(s) == e1(s) + 2 <= Len(t) /\ t[e1(s) + 1] = "." /\ IsDigit(t[e1(s) + 2])
      e2(s) == RunEnd(t, e1(s) + 2, DigitChars)
      withFraction(s) == pointed(s) /\ degreeAt(afterSpaces(e2(s) + 1))
      plain(s) == degreeAt(afterSpaces(e1(s) + 1))
      starts == {s \in 1..Len(t) : IsDigit(t[s]) /\ (withFraction(s) \/ plain(s))}
      s0 == CHOOSE s \in starts : \A j \in starts : s <= j
  IN IF starts = {} THEN <<>>
     ELSE << [whole |-> SubSeq(t, s0, e1(s0)),
              fraction |-> IF withFraction(s0) THEN SubSeq(t, e1(s0) + 2, e2(s0)) ELSE <<>>] >>

\* parseFloat of a match whose value is an integer
ParseFloat(m) == DigitsValue(m.whole)

\* the value of the match is an integer
IntegerDegrees(m) == \A i \in 1..Len(m.fraction) : m.fraction[i] = "0"

\* t.split('=').map((s) => s.trim()), its first two pieces
TwoSides(t) ==
  LET eqs == {i \in 1..Len(t) : t[i] = "="}
      e1 == CHOOSE i \in eqs : \A j \in eqs : i <= j
      later == {i \in eqs : i > e1}
      e2 == IF later = {} THEN Len(t) + 1 ELSE CHOOSE i \in later : \A j \in later : i <= j
  IN <<Trim(SubSeq(t, 1, e1 - 1)), Trim(SubSeq(t, e1 + 1, e2 - 1))>>


\* names.slice(0) and its like: every name, whatever k
AllNames(names, k) == [i \in 1..Len(names) |-> Join(names[i])]

\* names.slice(0, k) where names has k names at least
FirstNames(names, k) == [i \in 1..k |-> Join(names[i])]

\* parseOutcomeStatement on the trimmed text t, lower being t in lower case
\* and names the names found in t; <<>> for null, else <<statement>>
ParseTrimmed(t, lower, names) ==
  LET n == Len(names)
      name(k) == Join(names[k])
      slice(k) == FirstNames(names, k)
      \* the letters of names[k], one name each
      spelt(k) == [i \in 1..Len(names[k]) |-> names[k][i]]
      has(sub) == Includes(t, sub)
      hasLower(sub) == Includes(lower, sub)
      line == <<"l", "i", "n", "e">>
      lineSp == <<"l", "i", "n", "e", " ">>
      raySp == <<"r", "a", "y", " ">>
      angle == has(<<ANGLE>>) \/ hasLower(<<"a", "n", "g", "l", "e">>)
      twoTriples == n = 2 /\ Letters(names[1], 3) /\ Letters(names[2], 3)
      midpoint == MidpointMatch(t)
      degMatch == DegreeMatch(t)
      angleCompare(kind) ==
        IF n >= 6 THEN <<Stmt(kind, slice(6))>>
        ELSE IF twoTriples THEN <<Stmt(kind, spelt(1) \o spelt(2))>>
        ELSE <<>>
      sides == TwoSides(t)
      left == extractPointNames(sides[1])
      right == extractPointNames(sides[2])
      threeLetter == {k \in 1..n : Letters(names[k], 3)}
      \* the branches from the bare '=' on
      fromEquals ==
        IF has(<<"=">>) /\ n >= 2 /\ ~has(lineSp) /\ ~has(raySp)
             /\ Len(sides[1]) >= 1 /\ Len(sides[2]) >= 1
             /\ Len(left) >= 2 /\ Len(right) >= 2
          THEN <<Stmt("segment-equals-segment",
                      <<Join(left[1]), Join(left[2]), Join(right[1]), Join(right[2])>>)>>
        ELSE IF has(<<"=">>) /\ n >= 2 /\ ~has(lineSp) /\ ~has(raySp)
                  /\ Len(sides[1]) >= 1 /\ Len(sides[2]) >= 1
                  /\ Len(left) = 1 /\ Len(right) = 1
                  /\ Letters(left[1], 2) /\ Letters(right[1], 2)
          THEN <<Stmt("segment-equals-segment",
                      <<left[1][1], left[1][2], right[1][1], right[1][2]>>)>>
        ELSE IF has(<<"=">>) /\ n >= 4 /\ ~has(lineSp) /\ ~has(raySp)
          THEN <<Stmt("segment-equals-segment", slice(4))>>
        ELSE IF ((hasLower(<<"t", "r", "i", "a", "n", "g", "l", "e">>)
                    /\ (has(<<"1", "8", "0">>) \/ has(<<DEGREE>>)))
                 \/ (has(<<ANGLE>>) /\ has(<<"+">>) /\ has(<<"1", "8", "0">>)))
                /\ (threeLetter # {} \/ n >= 3)
          THEN IF threeLetter # {}
                 THEN <<Stmt("triangle-angles-sum-180",
                             spelt(CHOOSE k \in threeLetter : \A j \in threeLetter : k <= j))>>
                 ELSE <<Stmt("triangle-angles-sum-180", slice(3))>>
        ELSE IF (has(<<CONG>>) \/ hasLower(<<"c", "o", "n", "g", "r", "u", "e", "n", "t">>))
                /\ n >= 6
          THEN <<Stmt("triangles-congruent", slice(6))>>
        ELSE IF (has(<<CONG>>) \/ hasLower(<<"c", "o", "n", "g", "r", "u", "e", "n", "t">>))
                /\ twoTriples
          THEN <<Stmt("triangles-congruent", spelt(1) \o spelt(2))>>
        ELSE <<>>
      \* the branches from the angle comparisons on
      fromCompare ==
        IF angle /\ (has(<<LEQ>>) \/ has(<<"\\", "l", "e", "q">>))
             /\ angleCompare("angle-leq-angle") # <<>>
          THEN angleCompare("angle-leq-angle")
        ELSE IF angle /\ (has(<<GEQ>>) \/ has(<<"\\", "g", "e", "q">>))
                /\ angleCompare("angle-geq-angle") # <<>>
          THEN angleCompare("angle-geq-angle")
        ELSE IF angle /\ has(<<"<">>) /\ ~has(<<LEQ>>)
                /\ angleCompare("angle-less-than-angle") # <<>>
          THEN angleCompare("angle-less-than-angle")
        ELSE IF angle /\ has(<<">">>) /\ ~has(<<GEQ>>)
                /\ angleCompare("angle-greater-than-angle") # <<>>
          THEN angleCompare("angle-greater-than-angle")
        ELSE fromEquals
  IN IF t = <<>> THEN <<>>
     ELSE IF has(<<NEQ>>) /\ n >= 2 THEN <<Stmt("points-distinct", slice(2))>>
     ELSE IF (has(<<ELEMENT>>) \/ hasLower(<<" ", "i", "n", " ">> \o lineSp)) /\ n >= 3
       THEN <<Stmt("point-on-line", <<name(1), name(n - 1), name(n)>>)>>
     ELSE IF has(lineSp) /\ has(<<"=">>) /\ n >= 4 THEN <<Stmt("line-equals-line", slice(4))>>
     ELSE IF has(raySp) /\ has(<<CUP>>) /\ has(lineSp) /\ n >= 3
       THEN <<Stmt("rays-form-line", slice(3))>>
     ELSE IF (has(<<EXISTS>>) \/ hasLower(<<"u", "n", "i", "q", "u", "e">>))
             /\ hasLower(line) /\ n >= 2
       THEN <<Stmt("unique-line", slice(2))>>
     ELSE IF has(<<CAP>>) /\ n >= 5 THEN <<Stmt("intersection-equals", slice(5))>>
     ELSE IF hasLower(<<"m", "i", "d", "p", "o", "i", "n", "t">>) /\ hasLower(<<"o", "f">>)
             /\ midpoint # <<>> /\ Len(midpoint[1].seg) >= 2
       THEN <<Stmt("point-midpoint-of-segment",
                   <<Join(midpoint[1].point), midpoint[1].seg[1], midpoint[1].seg[2]>>)>>
     ELSE IF angle /\ has(<<DEGREE>>) /\ (n >= 3 \/ (n = 1 /\ Letters(names[1], 3)))
       THEN LET anglePoints == IF n >= 3 THEN slice(3) ELSE spelt(1)
            IN IF degMatch = <<>> THEN <<Stmt("angle-equals-constant", anglePoints)>>
               ELSE <<StmtC("angle-equals-constant", anglePoints, ParseFloat(degMatch[1]))>>
     ELSE IF angle /\ has(<<"=">>) /\ n >= 6 THEN <<Stmt("angle-equals-angle", slice(6))>>
     ELSE IF angle /\ has(<<"=">>) /\ twoTriples
       THEN <<Stmt("angle-equals-angle", spelt(1) \o spelt(2))>>
     ELSE fromCompare

parseOutcomeStatement(text) ==
  ParseTrimmed(Trim(text), ToLower(Trim(text)), extractPointNames(Trim(text)))

\* parseOutcomeStatement is computed exactly on text: a constant written in
\* it is an integer
Parsable(text) ==
  DegreeMatch(Trim(text)) = <<>> \/ IntegerDegrees(DegreeMatch(Trim(text))[1])


-----------------------------------------------------------------------------
(* The proof panel (src/client/geometry-plane/proof-ui.ts) *)

\* The elements of a set of step numbers in ascending order: the order of
\* the checkboxes in the document.
Ascending(S) ==
  CHOOSE q \in [1..Cardinality(S) -> S] : \A i, j \in 1..Cardinality(S) : i < j => q[i] < q[j]

\* CheckedRefs with the checkboxes numbered from the step being added.
CheckedRefsFromNext(given, steps, n) ==
  (IF given THEN <<GivenRef>> ELSE <<>>)
    \o [i \in 1..Cardinality(steps) |-> Ref(Ascending(steps)[i] + 1)]

\* prerequisiteRefs as the handler collects it from the checkboxes
CheckedRefs(given, steps, n) ==
  (IF given THEN <<GivenRef>> ELSE <<>>)
    \o [i \in 1..Cardinality({k \in steps : k >= 1 /\ k <= n}) |->
          Ref(Ascending({k \in steps : k >= 1 /\ k <= n})[i])]

\* the entry pushLog receives for an accepted step
ProofStepEntry(step) ==
  [op |-> "proof_step", reasonId |-> step.reasonId,
   outcome |-> [kind |-> step.outcome.kind, pointNames |-> step.outcome.pointNames],
   prerequisiteRefs |-> step.prerequisiteRefs]

NoStep == <<>>

\* The click handler of the Add button up to its verdict: [step, result],
\* step = NoStep when the handler returns before building one; parsed is
\* what parseOutcomeStatement returned for the trimmed text.
addStepAttempt(st, steps, reasonId, parsed, given, checked) ==
  LET step == ProofStep(parsed[1], reasonId, CheckedRefs(given, checked, Len(steps)))
  IN IF reasonId = "" THEN [step |-> NoStep, result |-> Reject("Choose a reason first.", <<>>)]
     ELSE IF parsed = <<>> THEN [step |-> NoStep, result |-> Reject("PARSE_HINT", <<>>)]
     ELSE [step |-> <<step>>,
           result |-> verifyStep(resolveContext(getPlaneStateSnapshot(st)), step, steps, <<>>)]

Accepted(attempt) ==
  attempt.step # NoStep /\ ~attempt.result.threw /\ attempt.result.ok

\* The reasons of the select element, '' for the placeholder option.
PanelReasons == {"", REASON_DEFINITION, "reflexivity"}

\* AB = AB, AB = BA, A != B, an unrecognised text, an empty text
PanelTexts ==
  { <<"A", "B", " ", "=", " ", "A", "B">>,
    <<"A", "B", " ", "=", " ", "B", "A">>,
    <<" ", "A", " ", NEQ, " ", "B">>,
    <<"A", "B">>,
    <<>> }

\* angle ABC = 90 degrees (with the symbols), AB = AB, an unrecognised text
RecordTexts ==
  { <<ANGLE, "A", "B", "C", " ", "=", " ", "9", "0", DEGREE>>,
    <<"A", "B", " ", "=", " ", "A", "B">>,
    <<"A", "B">> }

\* parseOutcomeStatement(text.trim()) of each text, computed once
Parsed == [text \in PanelTexts \cup RecordTexts |-> parseOutcomeStatement(Trim(text))]

\* AddStep with a handler that keeps every step it could build.
AddStepUnverified(reasons, texts) ==
  \E reasonId \in reasons, text \in texts, given \in BOOLEAN,
     checked \in SUBSET (1..Len(proofSteps)) :
    \E attempt \in {addStepAttempt(state, proofSteps, reasonId, Parsed[text], given, checked)} :
       /\ call' = [fn |-> "addStep"]
       /\ ret' = attempt.result
       /\ IF attempt.step # NoStep
            THEN /\ proofSteps' = Append(proofSteps, attempt.step[1])
                 /\ PushLog(<<ProofStepEntry(attempt.step[1])>>)
            ELSE UNCHANGED <<proofSteps, operationLog, requests, budget>>
       /\ UNCHANGED <<state, clickDelayTimeout, serverLog, snapshot, taskGivens>>

\* One click on the Add button.
AddStep(reasons, texts) ==
  \E reasonId \in reasons, text \in texts, given \in BOOLEAN,
     checked \in SUBSET (1..Len(proofSteps)) :
    \E attempt \in {addStepAttempt(state, proofSteps, reasonId, Parsed[text], given, checked)} :
       /\ call' = [fn |-> "addStep"]
       /\ ret' = attempt.result
       /\ IF Accepted(attempt)
            THEN /\ proofSteps' = Append(proofSteps, attempt.step[1])
                 /\ PushLog(<<ProofStepEntry(attempt.step[1])>>)
            ELSE UNCHANGED <<proofSteps, operationLog, requests, budget>>
       /\ UNCHANGED <<state, clickDelayTimeout, serverLog, snapshot, taskGivens>>

\* One event on the plane while the panel is shown.
PanelConstruct(points, tools, values) ==
  /\ ConstructWith(points, tools, values)
  /\ call' = [fn |-> "construct"]
  /\ ret' = NoRet
  /\ UNCHANGED <<proofSteps, serverLog, snapshot, taskGivens>>

\* Points at (0, 0) and (1, 0), labelled A and B.
TwoNamedPoints ==
  <<ClickAt(0, 0), DblClickAt(0, 0), Type("A"), ClickAt(1, 0), DblClickAt(1, 0), Type("B")>>

PanelSessions == {<<>>, TwoNamedPoints}

InitPanel ==
  /\ \E events \in PanelSessions : PlaneAfter(events)
  /\ snapshot = <<>>
  /\ taskGivens = <<>>
  /\ proofSteps = <<>>
  /\ call = NoCall
  /\ ret = NoRet

NextPanel ==
  \/ PanelConstruct({P2(0, 0), P2(1, 0)}, {"point", "remove"}, {"A", "B"})
  \/ AddStep(PanelReasons, PanelTexts)

SpecPanel == InitPanel /\ [][NextPanel]_vars


\* arr' is arr with exactly one element added at its end
OneAppended(arr, arrNext) ==
  Len(arrNext) = Len(arr) + 1 /\ SubSeq(arrNext, 1, Len(arr)) = arr

\* C11: every click on Add whose verdict is ok:true adds exactly one step at
\* the end of the step list and exactly one proof_step entry at the end of
\* the operation log; every other click on Add (no reason chosen, text not
\* parsed, ok:false) changes neither; and every event on the plane, clearing
\* included, leaves the step list as it is.
C11_AppendOnlyAllOrNothing ==
  [][IF call'.fn = "addStep"
       THEN IF ~ret'.threw /\ ret'.ok
              THEN /\ OneAppended(proofSteps, proofSteps')
                   /\ OneAppended(operationLog, operationLog')
                   /\ operationLog'[Len(operationLog')].op = "proof_step"
              ELSE proofSteps' = proofSteps /\ operationLog' = operationLog
       ELSE proofSteps' = proofSteps]_vars

\* a step was accepted and the plane was cleared after it
C11_Witness ==
  /\ Len(proofSteps) = 1
  /\ Len(operationLog) >= 2
  /\ operationLog[Len(operationLog) - 1].op = "proof_step"
  /\ operationLog[Len(operationLog)].op = "clear"
  /\ state.objectEntries = <<>>


-----------------------------------------------------------------------------
(* The logged record of a step *)

RecordReasons == {REASON_DEFINITION, "reflexivity", "thales"}

InitRecord ==
  /\ PlaneAfter(<<>>)
  /\ snapshot = <<>>
  /\ taskGivens = <<>>
  /\ proofSteps = <<>>
  /\ call = NoCall
  /\ ret = NoRet

NextRecord ==
  \/ PanelConstruct({P2(0, 0)}, {"point", "remove"}, {"A"})
  \/ AddStep(RecordReasons, RecordTexts)

SpecRecord == InitRecord /\ [][NextRecord]_vars

\* the entries of the log that record a step
RECURSIVE ProofStepEntries(_)
ProofStepEntries(log) ==
  IF log = <<>> THEN <<>>
  ELSE (IF Head(log).op = "proof_step" THEN <<Head(log)>> ELSE <<>>)
         \o ProofStepEntries(Tail(log))

\* the step a record holds: reasonId, outcome {kind, pointNames} and
\* prerequisiteRefs, nothing else
Rebuilt(entry) ==
  ProofStep(Stmt(entry.outcome.kind, entry.outcome.pointNames), entry.reasonId,
            entry.prerequisiteRefs)

RebuiltSteps(log) ==
  [i \in 1..Len(ProofStepEntries(log)) |-> Rebuilt(ProofStepEntries(log)[i])]

\* C12: whenever a click on Add has just accepted a step, the step rebuilt
\* from its logged record is accepted by verifyStep over the same
\* construction and the steps rebuilt from the records logged before it.
C12_RecordSufficient ==
  (call.fn = "addStep" /\ ret.ok) =>
    LET rebuilt == RebuiltSteps(operationLog)
        n == Len(rebuilt)
    IN verifyStep(resolveContext(getPlaneStateSnapshot(state)), rebuilt[n],
                  SubSeq(rebuilt, 1, n - 1), <<>>).ok


-----------------------------------------------------------------------------
(* checkStatement on its own *)

\* Q names no entry of either snapshot; B names none of the second.
CheckNames == {"A", "B", "Q"}

CheckSnapshots ==
  { KiteSnapshot,
    <<Point(0, 0, "A"), Point(1, 0, Undefined), Point(2, 0, " "),
      [geom |-> LineObj("line", 0, 0, 1, 0), name |-> "B"]>> }

\* The statements of every kind with as many names as the kind takes.
CheckStatements ==
  UNION {{Stmt(kind, names) : names \in [1..STATEMENT_POINT_COUNTS[kind] -> CheckNames]} :
           kind \in DOMAIN STATEMENT_POINT_COUNTS}
    \cup {StmtC("angle-equals-constant", names, 90) : names \in [1..3 -> CheckNames]}

InitCheck ==
  /\ snapshot \in CheckSnapshots
  /\ taskGivens = <<>>
  /\ proofSteps = <<>>
  /\ call = NoCall
  /\ ret = NoRet
  /\ PlaneUntouched

\* One call checkStatement(resolveContext(snapshot), s).
CheckStatement(statements) ==
  /\ call = NoCall
  /\ \E s \in statements :
       /\ call' = [fn |-> "checkStatement", s |-> s]
       /\ ret' = [value |-> checkStatement(resolveContext(snapshot), s)]
  /\ UNCHANGED <<snapshot, taskGivens, proofSteps>>
  /\ UNCHANGED plane

NextCheck == CheckStatement(CheckStatements)

SpecCheck == InitCheck /\ [][NextCheck]_vars

\* some name of the checked statement has no entry in the resolved context
C13_Unresolved ==
  \E i \in 1..Len(call.s.pointNames) : ~Has(resolveContext(snapshot), call.s.pointNames[i])

-----------------------------------------------------------------------------
(* resolveContext on its own *)

\* The longest snapshot.
MaxEntries == 3

\* Points named A in four spellings, a blank and an absent name, a point
\* named B, and an object of each other type under the names A and B.
ResolveEntries ==
  { Point(0, 0, "A"), Point(1, 0, "A"), Point(2, 0, " A"), Point(0, 1, "A "),
    Point(1, 1, " "), Point(2, 1, Undefined), Point(2, 2, "B"),
    [geom |-> LineObj("line", 0, 0, 1, 0), name |-> "A"],
    [geom |-> LineObj("ray", 0, 0, 1, 0), name |-> "B"],
    [geom |-> LineObj("segment", 0, 0, 1, 0), name |-> " A"],
    [geom |-> AngleObj(1, 0, 0, 0, 0, 1), name |-> "A"],
    [geom |-> CircleObj(0, 0, 1), name |-> "B"] }

InitResolve ==
  /\ snapshot \in SeqsUpTo(ResolveEntries, MaxEntries)
  /\ taskGivens = <<>>
  /\ proofSteps = <<>>
  /\ call = NoCall
  /\ ret = NoRet
  /\ PlaneUntouched

\* One call resolveContext(snapshot).
ResolveContext ==
  /\ call = NoCall
  /\ call' = [fn |-> "resolveContext"]
  /\ ret' = [value |-> resolveContext(snapshot).points]
  /\ UNCHANGED <<snapshot, taskGivens, proofSteps>>
  /\ UNCHANGED plane

NextResolve == ResolveContext

SpecResolve == InitResolve /\ [][NextResolve]_vars

\* entry i of the snapshot is a point with a name that is not blank
C14_Named(i) ==
  /\ snapshot[i].geom.type = "point"
  /\ snapshot[i].name # Undefined
  /\ trim(snapshot[i].name) # ""

\* entry i of the snapshot is such a point and its name, trimmed, is n
C14_PointNamed(i, n) == C14_Named(i) /\ trim(snapshot[i].name) = n

\* C14: the names resolveContext indexes are exactly the trimmed, non-empty
\* names of the point entries of the snapshot, and each is mapped to the
\* coordinates of the first point entry of that trimmed name; so no line,
\* ray, segment, angle, circle or unnamed point is indexed.
C14_FirstNamedPointWins ==
  call.fn = "resolveContext" =>
    /\ DOMAIN ret.value =
         {trim(snapshot[i].name) : i \in {j \in 1..Len(snapshot) : C14_Named(j)}}
    /\ \A n \in DOMAIN ret.value :
         \E i \in 1..Len(snapshot) :
           /\ C14_PointNamed(i, n)
           /\ \A j \in 1..(i - 1) : ~C14_PointNamed(j, n)
           /\ ret.value[n] = [x |-> snapshot[i].geom.x, y |-> snapshot[i].geom.y]

\* a line named A, then the points " A" and "A": the point " A" is kept
C14_Witness ==
  /\ call.fn = "resolveContext"
  /\ snapshot = << [geom |-> LineObj("line", 0, 0, 1, 0), name |-> "A"],
                   Point(2, 0, " A"), Point(0, 0, "A") >>
  /\ DOMAIN ret.value = {"A"}
  /\ ret.value["A"] = [x |-> 2, y |-> 0]


-----------------------------------------------------------------------------
(* Replay of the operation log *)

\* Two points, a circle about the first through the second, a line drawn
\* from the first point to itself, the first point removed, and the
\* intersection tool chosen.
LineOnOnePoint ==
  <<ClickAt(0, 0), ClickAt(0, 1), Tool("circle"), ClickAt(0, 0), ClickAt(0, 1),
    Tool("line"), ClickAt(0, 0), ClickAt(0, 0), Tool("remove"), ClickAt(0, 0),
    Tool("intersection")>>

ReplaySessions == {<<>>, LineOnOnePoint}

InitReplay ==
  /\ \E events \in ReplaySessions : PlaneAfter(events)
  /\ snapshot = <<>>
  /\ taskGivens = <<>>
  /\ proofSteps = <<>>
  /\ call = NoCall
  /\ ret = NoRet

NextReplay ==
  /\ Construct
  /\ UNCHANGED <<snapshot, taskGivens, proofSteps, call, ret, serverLog>>

SpecReplay == InitReplay /\ [][NextReplay]_vars

\* Entries a replay has to pass over: a remove and a label whose index is
\* outside the replayed list, and entries that are no construction operation.
PassedOver(n) ==
  { [op |-> "remove", index |-> n, geom |-> PointObj(0, 0)],
    [op |-> "remove", index |-> -1, geom |-> PointObj(0, 0)],
    [op |-> "label", index |-> n, name |-> "A"],
    [op |-> "label", index |-> -1, name |-> "A"],
    [op |-> "proof_step", reasonId |-> "reflexivity",
     outcome |-> [kind |-> "segment-equals-segment", pointNames |-> <<"A", "B", "A", "B">>],
     prerequisiteRefs |-> <<>>],
    [op |-> "task_statement"] }

\* log with the entry e put after its first k entries
InsertedAt(log, k, e) == SubSeq(log, 1, k) \o <<e>> \o SubSeq(log, k + 1, Len(log))

\* C15: after any sequence of construction events from an empty plane, the
\* replay of the logged lines is the snapshot of the live plane (the same
\* geometry objects in the same order under the same trimmed names), and an
\* out-of-range remove or label, or an entry that is no construction
\* operation, put anywhere into the log leaves the replayed state as it is.
C15_ReplayReproducesPlane ==
  /\ replayLogFromString(LogLines(operationLog)) = getPlaneStateSnapshot(state)
  /\ \A k \in 0..Len(operationLog) :
       \A e \in PassedOver(Len(replayLogFromString(LogLines(SubSeq(operationLog, 1, k))))) :
         replayLogFromString(LogLines(InsertedAt(operationLog, k, e)))
           = replayLogFromString(LogLines(operationLog))

-----------------------------------------------------------------------------
(* The server log (src/client/logger.js, POST /log)                         *)
(*                                                                         *)
(* logAction starts a fetch and returns: pushLog does not wait for it, the *)
(* requests of two entries may be under way together, and a request that   *)
(* fails is dropped by .catch(() => {}).  The server appends the message   *)
(* of each request that reaches it as one line.                            *)

\* POST /log: the message of a request that arrives becomes the last line
\* of logs/user_actions.log
appendLine(lines, message) == Append(lines, message)

\* a request under way reaches the server
PostLogArrives ==
  \E r \in requests :
    /\ requests' = requests \ {r}
    /\ serverLog' = appendLine(serverLog, r.line)
    /\ UNCHANGED <<state, clickDelayTimeout, operationLog, budget>>

\* a request under way fails; logAction swallows the error
PostLogFails ==
  \E r \in requests :
    /\ requests' = requests \ {r}
    /\ UNCHANGED <<state, clickDelayTimeout, operationLog, serverLog, budget>>

InitLog ==
  /\ PlaneAfter(<<>>)
  /\ snapshot = <<>>
  /\ taskGivens = <<>>
  /\ proofSteps = <<>>
  /\ call = NoCall
  /\ ret = NoRet

NextLog ==
  \/ /\ ConstructWith({P2(0, 0), P2(1, 0)}, {"point", "remove"}, {"A"})
     /\ UNCHANGED <<snapshot, taskGivens, proofSteps, call, ret, serverLog>>
  \/ /\ PostLogArrives
     /\ UNCHANGED <<snapshot, taskGivens, proofSteps, call, ret>>
  \/ /\ PostLogFails
     /\ UNCHANGED <<snapshot, taskGivens, proofSteps, call, ret>>

SpecLog == InitLog /\ [][NextLog]_vars

\* C16: once no request is under way, the server log holds the lines of the
\* operation log, every one of them and in the order of the operations, and
\* its replay is the replay of the operation log.
C16_ServerLogIsOperationLog ==
  requests = {} =>
    /\ serverLog = LogLines(operationLog)
    /\ replayLogFromString(serverLog) = replayLogFromString(LogLines(operationLog))

-----------------------------------------------------------------------------
(* checkStatement on the lengths of segments *)

\* Whole coordinates: |AB| = 50, |AC| = sqrt(2501) = 50.0099..., |AD| = 10
\* and |AE| = sqrt(101) = 10.0498...
WholeSnapshot ==
  <<Point(0, 0, "A"), Point(50, 0, "B"), Point(50, 1, "C"), Point(10, 0, "D"),
    Point(10, 1, "E")>>

\* Coordinates counted in thousandths: |AB| = 5.000, |AC| = 5.009,
\* |AD| = 5.020, |AE| = 5.010 and |AF| = 5.000.
ThousandthsSnapshot ==
  <<Point(0, 0, "A"), Point(5000, 0, "B"), Point(0, 5009, "C"), Point(0, 5020, "D"),
    Point(0, 5010, "E"), Point(3000, 4000, "F")>>

LengthSnapshots == {WholeSnapshot, ThousandthsSnapshot}

LengthStatements == {SES(names) : names \in [1..4 -> {"A", "B", "C", "D", "E", "F"}]}

InitLength ==
  /\ snapshot \in LengthSnapshots
  /\ taskGivens = <<>>
  /\ proofSteps = <<>>
  /\ call = NoCall
  /\ ret = NoRet
  /\ PlaneUntouched

\* One call checkStatement(resolveContext(snapshot), s) on a segment equality.
CheckSegments ==
  /\ call = NoCall
  /\ \E s \in LengthStatements :
       /\ call' = [fn |-> "checkStatement", s |-> s]
       /\ ret' = [value |->
                    IF snapshot = ThousandthsSnapshot
                      THEN segmentEqualsSegment(resolveContext(snapshot), s, 10, 1)
                    ELSE checkStatement(resolveContext(snapshot), s)]
  /\ UNCHANGED <<snapshot, taskGivens, proofSteps>>
  /\ UNCHANGED plane

NextLength == CheckSegments

SpecLength == InitLength /\ [][NextLength]_vars

\* the whole part of a length in hundredths (whole coordinates) or in
\* thousandths (coordinates in thousandths), from its square p
C17_Length(p) == IF snapshot = ThousandthsSnapshot THEN Root(p) ELSE Root(10000 * p)

\* the length of square p is that whole number
C17_Exact(p) ==
  C17_Length(p) * C17_Length(p) = (IF snapshot = ThousandthsSnapshot THEN p ELSE 10000 * p)

\* 0.01 in the unit of C17_Length
C17_Hundredth == IF snapshot = ThousandthsSnapshot THEN 10 ELSE 1

\* value is as the lengths of squares p and q require: decided by their
\* difference when both are whole numbers of the unit, and by the whole
\* parts when these are less than 0.01 or more than 0.01 apart either way
C17_Decided(value, p, q) ==
  /\ (C17_Exact(p) /\ C17_Exact(q)) =>
       (value <=> Gap(C17_Length(p), C17_Length(q)) <= C17_Hundredth)
  /\ Gap(C17_Length(p), C17_Length(q)) <= C17_Hundredth - 1 => value
  /\ Gap(C17_Length(p), C17_Length(q)) >= C17_Hundredth + 1 => ~value

C17_Resolved == \A i \in 1..4 : Has(resolveContext(snapshot), call.s.pointNames[i])

C17_Square(i, j) ==
  Dist2(resolveContext(snapshot).points[call.s.pointNames[i]],
        resolveContext(snapshot).points[call.s.pointNames[j]])

\* C17: checkStatement on segment-equals-segment [a, b, c, d] with the four
\* names resolved returns true iff | |ab| - |cd| | <= 0.01; a segment of
\* length 5.00 equals one of length 5.009 and not one of length 5.02.
C17_EqualWithinHundredth ==
  (call.fn = "checkStatement" /\ C17_Resolved) =>
    /\ C17_Decided(ret.value, C17_Square(1, 2), C17_Square(3, 4))
    /\ (snapshot = ThousandthsSnapshot /\ call.s.pointNames = <<"A", "B", "A", "C">>)
         => ret.value
    /\ (snapshot = ThousandthsSnapshot /\ call.s.pointNames = <<"A", "B", "A", "D">>)
         => ~ret.value

\* the segment of length 5.00 was found equal to the one of length 5.009
C17_Witness ==
  /\ snapshot = ThousandthsSnapshot
  /\ call.fn = "checkStatement"
  /\ call.s.pointNames = <<"A", "B", "A", "C">>
  /\ ret = [value |-> TRUE]

-----------------------------------------------------------------------------
(* SpecMatch: the five congruence matchers over the isosceles triangle ABC *)

\* AB = AC, BC = CB and the base angles hold in the kite.
MatchPremises ==
  { SES(<<"A", "B", "A", "C">>), SES(<<"B", "C", "C", "B">>),
    AEA(<<"A", "B", "C", "A", "C", "B">>) }

MatchPool == {ProofStep(st, "definition", <<>>) : st \in MatchPremises}

MatchGivens == { <<>>, <<SES(<<"A", "B", "A", "C">>)>> }

MatchReasonIds == {"sas", "asa", "aas", "sss", "hl"}

\* Triangle ABC on triangle ACB, and on itself.
MatchOutcomes ==
  { TC(<<"A", "B", "C", "A", "C", "B">>), TC(<<"A", "B", "C", "A", "B", "C">>) }

InitMatch == InitWith({KiteSnapshot}, MatchGivens, MatchPool)

NextMatch == VerifyStep(MatchReasonIds, MatchOutcomes)

SpecMatch == InitMatch /\ [][NextMatch]_vars

\* The prerequisites the recorded call cites, each once: the givens when
\* 'given' is cited and the earlier steps whose number is cited.
C18_Cited ==
  {<<"given", k>> : k \in {k \in 1..Len(taskGivens) :
                      \E i \in 1..Len(call.step.prerequisiteRefs) :
                        call.step.prerequisiteRefs[i] = GivenRef}}
  \cup {<<"step", n>> : n \in {n \in 1..Len(proofSteps) :
                         \E i \in 1..Len(call.step.prerequisiteRefs) :
                           call.step.prerequisiteRefs[i] = Ref(n)}}

C18_Statement(cited) ==
  IF cited[1] = "given" THEN taskGivens[cited[2]] ELSE proofSteps[cited[2]].outcome

\* The premise lists a matcher may require for the outcome names: one for
\* each ordering of the second triangle (and each vertex, for sas).
C18_Required(reasonId, names) ==
  UNION { LET tri1 == Tri1(names)
              tri2 == Tri2(names, TRIANGLE_SECOND_PERMS[q])
          IN CASE reasonId = "sas" -> {SasRequired(tri1, tri2, v) : v \in 0..2}
               [] reasonId = "asa" -> {AsaRequired(tri1, tri2)}
               [] reasonId = "aas" -> {AasRequired(tri1, tri2)}
               [] reasonId = "sss" -> {SssRequired(tri1, tri2)}
               [] OTHER -> {HlRequired(tri1, tri2)}
          : q \in 1..Len(TRIANGLE_SECOND_PERMS) }

\* Each premise of required is matched by a cited prerequisite of its own.
C18_Assigned(required, cited) ==
  \E f \in [1..Len(required) -> cited] :
    /\ \A i, j \in 1..Len(required) : f[i] = f[j] => i = j
    /\ \A i \in 1..Len(required) :
         /\ required[i].kind = "angle-equals-constant" => angle90(C18_Statement(f[i]))
         /\ statementsEqualStructural(C18_Statement(f[i]), required[i])

\* C18: when sas, asa, aas, sss or hl accepts a congruence, the premises of
\* some correspondence are matched each by a different cited prerequisite,
\* whatever the prerequisiteRefs list, a list citing a step or 'given'
\* more than once included.
C18_EachPremiseItsOwnPrerequisite ==
  (Called(MatchReasonIds) /\ CongruenceOutcome(call.step) /\ ret.ok) =>
    \E required \in C18_Required(call.step.reasonId, call.step.outcome.pointNames) :
      C18_Assigned(required, C18_Cited)

-----------------------------------------------------------------------------
(* SpecGeneric: the template reasons of the generic path over the kite *)

GenericReasonIds == {"line-determination", "point-on-line-same-line", "opposite-rays-form-line"}

\* B # C, M on line BC and the rays from B and from C through M hold in the
\* kite.
GenericPremises ==
  { Stmt("points-distinct", <<"B", "C">>), Stmt("point-on-line", <<"M", "B", "C">>),
    Stmt("rays-form-line", <<"B", "M", "C">>) }

GenericPool == {ProofStep(st, "definition", <<>>) : st \in GenericPremises}

GenericGivens == { <<>>, <<Stmt("points-distinct", <<"B", "C">>)>> }

\* The conclusions the premises justify, one with its names exchanged, and
\* outcomes of another kind or another number of names.
GenericOutcomes ==
  { Stmt("unique-line", <<"B", "C">>), Stmt("unique-line", <<"C", "B">>),
    Stmt("line-equals-line", <<"B", "M", "B", "C">>),
    Stmt("rays-form-line", <<"B", "M", "C">>),
    Stmt("points-distinct", <<"B", "C">>), Stmt("unique-line", <<"B", "C", "M">>),
    Stmt("line-equals-line", <<"B", "M", "B">>) }

InitGeneric == InitWith({KiteSnapshot}, GenericGivens, GenericPool)

NextGeneric == VerifyStep(GenericReasonIds, GenericOutcomes)

SpecGeneric == InitGeneric /\ [][NextGeneric]_vars

\* the outcome has the kind and the number of names of the conclusion
C19_Shaped(reason, outcome) ==
  /\ outcome.kind = reason.conclusion.kind
  /\ Len(outcome.pointNames) = Len(reason.conclusion.pointNames)

\* the premise, substituted by occurrence against the outcome's names, is
\* structurally equal to some statement of prereqs
C19_Present(sub, prereqs) ==
  /\ sub.found
  /\ \E j \in 1..Len(prereqs) : statementsEqualStructural(prereqs[j], sub.statement)

C19_Premises(reason, outcome, prereqs) ==
  \A i \in 1..Len(reason.premises) :
    C19_Present(substitutePremiseByOccurrence(reason.premises[i], reason.conclusion.pointNames,
                                              outcome.pointNames, EmptyUsed),
                prereqs)

C19_Verdict(reason, outcome) ==
  IF ~C19_Shaped(reason, outcome)
    THEN /\ ~ret.threw /\ ~ret.ok
         /\ ret.message.text = "Conclusion should be (with your point names):"
    ELSE ret.ok <=> C19_Premises(reason, outcome, CallPrereqs)

\* C19: for line-determination, point-on-line-same-line and
\* opposite-rays-form-line, verifyStep rejects with 'Conclusion should be'
\* an outcome whose kind or number of names is not the conclusion
\* template's, and accepts any other outcome iff each premise template,
\* substituted by occurrence against the outcome's names, is structurally
\* equal to some resolved prerequisite.
C19_GenericTemplate ==
  Called(GenericReasonIds) => C19_Verdict(FindReason(call.step.reasonId), call.step.outcome)

-----------------------------------------------------------------------------
(* SpecPairs: statementsEqualStructural on pairs of statements *)

OrderingKinds ==
  {"angle-less-than-angle", "angle-greater-than-angle", "angle-leq-angle", "angle-geq-angle"}

\* Segment equalities over three names, angle equalities and orderings over
\* two names and over the angles ABC and BCA, and statements of kinds that
\* take two or three names, some with a name too many.
PairStatements ==
  {SES(names) : names \in [1..4 -> {"A", "B", "C"}]}
    \cup {Stmt(kind, names) : kind \in OrderingKinds \cup {"angle-equals-angle"},
                              names \in [1..6 -> {"A", "B"}]
                                          \cup {<<"A", "B", "C", "B", "C", "A">>,
                                                <<"B", "C", "A", "A", "B", "C">>,
                                                <<"C", "B", "A", "B", "C", "A">>}}
    \cup {Stmt(kind, names) : kind \in {"points-distinct", "unique-line", "point-on-line"},
                              names \in [1..2 -> {"A", "B"}] \cup [1..3 -> {"A", "B"}]}
    \cup {StmtC("angle-equals-constant", <<"A", "B", "C">>, 90),
          TC(<<"A", "B", "C", "B", "C", "A">>)}

\* One call statementsEqualStructural(a, b).
ComparePair ==
  /\ call = NoCall
  /\ \E a \in PairStatements, b \in PairStatements :
       /\ call' = [fn |-> "statementsEqualStructural", a |-> a, b |-> b]
       /\ ret' = [value |-> statementsEqualStructural(a, b)]
  /\ UNCHANGED <<snapshot, taskGivens, proofSteps>>
  /\ UNCHANGED plane

NextPairs == ComparePair

SpecPairs == InitPure /\ [][NextPairs]_vars

\* the two segments of a segment equality, each the set of its ends
C20_Segments(names) == {{names[1], names[2]}, {names[3], names[4]}}

\* the two angles of an angle equality, each its vertex and the set of the
\* ends of its arms
C20_Angles(names) == {<<names[2], {names[1], names[3]}>>, <<names[5], {names[4], names[6]}>>}

C20_Equal(a, b) ==
  IF a.kind # b.kind THEN FALSE
  ELSE IF a.kind = "segment-equals-segment"
    THEN C20_Segments(a.pointNames) = C20_Segments(b.pointNames)
  ELSE IF a.kind = "angle-equals-angle"
    THEN C20_Angles(a.pointNames) = C20_Angles(b.pointNames)
  ELSE a.pointNames = b.pointNames

\* C20: statementsEqualStructural never equates statements of different
\* kinds; it equates two segment equalities iff they have the same two
\* segments, two angle equalities iff they have the same two angles (vertex
\* and pair of arms), and two statements of a kind without a symmetry of
\* its own, the orderings <, >, <=, >= among them, iff their names are the
\* same place by place.
C20_ExactlyTheSymmetries ==
  (call.fn = "statementsEqualStructural"
     /\ (call.a.kind = call.b.kind => call.a.kind # "angle-equals-constant"))
    => (ret.value <=> C20_Equal(call.a, call.b))

\* angle ABC < angle BCA was compared with angle BCA < angle ABC and found
\* different
C20_Witness ==
  /\ call.fn = "statementsEqualStructural"
  /\ call.a = Stmt("angle-less-than-angle", <<"A", "B", "C", "B", "C", "A">>)
  /\ call.b = Stmt("angle-less-than-angle", <<"B", "C", "A", "A", "B", "C">>)
  /\ ret = [value |-> FALSE]

-----------------------------------------------------------------------------
(* C21: the prerequisite count test *)

\* The reasons whose verification resolves the cited prerequisites.
ResolvingReasonIds ==
  ReasonIds \ {REASON_GIVEN, REASON_DEFINITION, "reflexivity", "thales", "sum-triangle-angles"}

\* The prerequisite statements the refs of the recorded call resolve to: the
\* givens for 'given', the outcome of the previous step a number names.
C21_Resolved ==
  getPrerequisiteStatements(Len(proofSteps) + 1, call.step.prerequisiteRefs,
                            proofSteps, taskGivens).out

C21_Short ==
  /\ Called(ResolvingReasonIds)
  /\ Len(C21_Resolved) < Len(FindReason(call.step.reasonId).premises)

\* C21: for every reason that resolves prerequisites, a step whose refs
\* resolve to fewer prerequisite statements than the reason has premise
\* templates is rejected with the message naming the required count.
C21_TooFewPrerequisites ==
  C21_Short =>
    ret = Reject("This reason requires prerequisite(s):",
                 <<ToString(Len(FindReason(call.step.reasonId).premises))>>)

\* The same, for the calls that returned.
C21_TooFewWhenReturned == ~ret.threw => C21_TooFewPrerequisites

\* A short call that was rejected for the count, over a non-empty step list.
C21_Rejected ==
  /\ C21_Short
  /\ call.step.prerequisiteRefs # <<>>
  /\ proofSteps # <<>>
  /\ ~ret.threw

-----------------------------------------------------------------------------
(* C22: stored steps cite earlier steps only *)

\* The numbers among the refs of a step.
NumericRefs(step) ==
  {step.prerequisiteRefs[k][2] : k \in {j \in 1..Len(step.prerequisiteRefs) :
                                          step.prerequisiteRefs[j] # GivenRef}}

\* C22: in every state reachable through the proof panel, each numeric
\* prerequisite ref r of the stored step at 1-based position i satisfies
\* 1 <= r <= i - 1.
C22_ForwardOnlyRefs ==
  \A i \in 1..Len(proofSteps) :
    \A r \in NumericRefs(proofSteps[i]) : 1 <= r /\ r <= i - 1

\* Two stored steps, the second citing the first and the givens.
C22_Witness ==
  /\ Len(proofSteps) = 2
  /\ proofSteps[2].prerequisiteRefs = <<GivenRef, Ref(1)>>
  /\ proofSteps[1].prerequisiteRefs = <<GivenRef>>

-----------------------------------------------------------------------------
(* parseOutcomeStatement on written texts and on displayed statements *)

RECURSIVE DigitsOf(_)
\* String(n) of a whole number n, as characters
DigitsOf(n) == IF n < 10 THEN <<Digits[n + 1]>> ELSE DigitsOf(n \div 10) \o <<Digits[(n % 10) + 1]>>

\* The characters of a word written in capitals and of one in small letters.
Word(indexes) == [i \in 1..Len(indexes) |-> Lowers[indexes[i]]]

LineWord == Word(<<12, 9, 14, 5>>)

RayWord == Word(<<18, 1, 25>>)

ThroughWord == Word(<<20, 8, 18, 15, 21, 7, 8>>)

IsMidpointOf == Word(<<9, 19>>) \o <<" ">> \o Word(<<13, 9, 4, 16, 15, 9, 14, 20>>) \o <<" ">> \o Word(<<15, 6>>)

AnglesOf == Word(<<1, 14, 7, 12, 5, 19>>) \o <<" ">> \o Word(<<15, 6>>)

SumTo == Word(<<19, 21, 13>>) \o <<" ">> \o Word(<<20, 15>>)

\* statementToString(s) as the characters of the string it returns, for a
\* statement whose names are one character each.
statementToText(s) ==
  LET p(i) == Nth(s.pointNames, i)
      ang(i) == <<ANGLE, p(i), p(i + 1), p(i + 2)>>
      cmp(op) == ang(0) \o <<" ", op, " ">> \o ang(3)
      line(i, j) == LineWord \o <<" ", p(i), p(j)>>
      ray(i, j) == RayWord \o <<" ", p(i), p(j)>>
  IN CASE s.kind = "points-distinct" -> <<p(0), " ", NEQ, " ", p(1)>>
       [] s.kind = "point-on-line" -> <<p(0), " ", ELEMENT, " ">> \o line(1, 2)
       [] s.kind = "line-equals-line" -> line(0, 1) \o <<" ", "=", " ">> \o line(2, 3)
       [] s.kind = "rays-form-line" ->
            ray(0, 1) \o <<" ", CUP, " ">> \o ray(2, 1) \o <<" ", "=", " ">> \o line(0, 1)
       [] s.kind = "unique-line" ->
            <<EXISTS, SUB1, " ">> \o LineWord \o <<" ">> \o ThroughWord
              \o <<" ", p(0), ",", " ", p(1)>>
       [] s.kind = "intersection-equals" ->
            <<p(0), " ", "=", " ">> \o line(1, 2) \o <<" ", CAP, " ">> \o line(3, 4)
       [] s.kind = "angle-equals-constant" ->
            ang(0) \o <<" ", "=", " ">>
              \o (IF s.constant = NoConstant THEN <<MIDDOT>> ELSE DigitsOf(s.constant[1]))
              \o <<DEGREE>>
       [] s.kind = "angle-equals-angle" -> cmp("=")
       [] s.kind = "angle-less-than-angle" -> cmp("<")
       [] s.kind = "angle-greater-than-angle" -> cmp(">")
       [] s.kind = "angle-leq-angle" -> cmp(LEQ)
       [] s.kind = "angle-geq-angle" -> cmp(GEQ)
       [] s.kind = "segment-equals-segment" -> <<p(0), p(1), " ", "=", " ", p(2), p(3)>>
       [] s.kind = "triangles-congruent" ->
            <<DELTA, p(0), p(1), p(2), " ", CONG, " ", DELTA, p(3), p(4), p(5)>>
       [] s.kind = "triangle-angles-sum-180" ->
            AnglesOf \o <<" ", DELTA, p(0), p(1), p(2), " ">> \o SumTo
              \o <<" ", "1", "8", "0", DEGREE>>
       [] s.kind = "point-midpoint-of-segment" ->
            <<p(0), " ">> \o IsMidpointOf \o <<" ", p(1), p(2)>>

\* The pieces a written text is put together from: names, several names,
\* the symbols and the words the parser looks for.
TextPieces ==
  { <<"A", "B">>, <<"A", "B", "C">>,
    <<"A", " ", "B", " ", "C">>, <<"D", " ", "E", " ", "F", " ", "G">>,
    <<NEQ>>, <<ELEMENT>>, <<CAP>>, <<EXISTS>>, <<CONG>>,
    <<"=">>, <<"9", "0", DEGREE>>,
    <<ANGLE, " ", "=">>, <<ANGLE, " ", "<">>, <<ANGLE, " ", ">">>,
    <<ANGLE, " ", LEQ>>, <<ANGLE, " ", GEQ>>,
    LineWord, RayWord \o <<" ", CUP>>, IsMidpointOf,
    Word(<<20, 18, 9, 1, 14, 7, 12, 5>>) }

\* The longest text, in pieces.
MaxPieces == 3

RECURSIVE Spaced(_)
\* the pieces with one space between them
Spaced(pieces) ==
  IF pieces = <<>> THEN <<>>
  ELSE IF Len(pieces) = 1 THEN pieces[1]
  ELSE pieces[1] \o <<" ">> \o Spaced(Tail(pieces))

\* The texts of n pieces at most.
ParseTexts(n) == {Spaced(pieces) : pieces \in SeqsUpTo(TextPieces, n)}

\* The statements displayed and read back: one of each kind over one-letter
\* names, with and without a constant, names repeated and in either case.
ShownNames == {<<"A", "B", "C", "D", "E", "F">>, <<"C", "A", "B", "E", "C", "D">>,
               <<"M", "A", "B", "M", "A", "C">>, <<"o", "f", "X", "i", "n", "Y">>}

ShownStatements ==
  UNION { {Stmt(kind, SubSeq(names, 1, STATEMENT_POINT_COUNTS[kind])) :
             names \in ShownNames} : kind \in DOMAIN STATEMENT_POINT_COUNTS }
    \cup {StmtC("angle-equals-constant", SubSeq(names, 1, 3), c) :
            names \in ShownNames, c \in {0, 45, 90, 180}}

\* One call parseOutcomeStatement(text) on a written text.
ParseOutcomeStatement ==
  /\ call = NoCall
  /\ \E text \in ParseTexts(MaxPieces) :
       /\ call' = [fn |-> "parseOutcomeStatement", text |-> text]
       /\ ret' = [value |-> parseOutcomeStatement(text)]
  /\ UNCHANGED <<snapshot, taskGivens, proofSteps>>
  /\ UNCHANGED plane

\* One call parseOutcomeStatement(statementToString(s)).
ParseShown ==
  /\ call = NoCall
  /\ \E s \in ShownStatements :
       /\ call' = [fn |-> "parseShown", s |-> s, text |-> statementToText(s)]
       /\ ret' = [value |-> parseOutcomeStatement(statementToText(s))]
  /\ UNCHANGED <<snapshot, taskGivens, proofSteps>>
  /\ UNCHANGED plane

NextParse == ParseOutcomeStatement \/ ParseShown

SpecParse == InitPure /\ [][NextParse]_vars

ParseCalled == call.fn \in {"parseOutcomeStatement", "parseShown"}

\* C23: every statement parseOutcomeStatement returns has exactly
\* STATEMENT_POINT_COUNTS[kind] names.
C23_ParsedPointCount ==
  (ParseCalled /\ ret.value # <<>>) =>
    /\ ret.value[1].kind \in DOMAIN STATEMENT_POINT_COUNTS
    /\ Len(ret.value[1].pointNames) = STATEMENT_POINT_COUNTS[ret.value[1].kind]

\* A statement of two names parsed from a text with seven names.
C23_Witness ==
  /\ call.fn = "parseOutcomeStatement"
  /\ Len(extractPointNames(call.text)) = 7
  /\ ret.value # <<>>
  /\ ret.value[1].kind = "points-distinct"

-----------------------------------------------------------------------------
(* C24: transitivity of equality over measured angles *)

AngleIs(names, c) == StmtC("angle-equals-constant", names, c)

\* Angle AMC is 90 degrees; angle AMB is 45 degrees, or 90.
MeasurePool ==
  { ProofStep(AngleIs(<<"A", "M", "C">>, 90), REASON_GIVEN, <<>>),
    ProofStep(AngleIs(<<"A", "M", "B">>, 45), REASON_GIVEN, <<>>),
    ProofStep(AngleIs(<<"B", "M", "A">>, 90), REASON_GIVEN, <<>>) }

MeasureGivens ==
  { <<>>, <<AngleIs(<<"A", "M", "C">>, 90), AngleIs(<<"A", "M", "B">>, 45)>> }

MeasureOutcomes ==
  { AEA(<<"A", "M", "C", "A", "M", "B">>), AEA(<<"A", "M", "B", "A", "M", "C">>),
    AEA(<<"A", "M", "C", "B", "M", "C">>) }

InitMeasure == InitWith({KiteSnapshot}, MeasureGivens, MeasurePool)

NextMeasure == VerifyStep({"transitivity-equals"}, MeasureOutcomes)

SpecMeasure == InitMeasure /\ [][NextMeasure]_vars

\* Statement p says that the angle with vertex v and arms through a and b
\* measures c degrees.
C24_States(p, a, v, b, c) ==
  /\ p.kind = "angle-equals-constant"
  /\ Len(p.pointNames) = 3
  /\ p.pointNames[2] = v
  /\ {p.pointNames[1], p.pointNames[3]} = {a, b}
  /\ p.constant = <<c>>

\* The measures the resolved prerequisites of the recorded call give to the
\* i-th angle (i = 0, 1) of its outcome.
C24_Measures(i) ==
  LET o == call.step.outcome.pointNames
  IN {c \in 0..180 : \E k \in 1..Len(CallPrereqs) :
        C24_States(CallPrereqs[k], o[3 * i + 1], o[3 * i + 2], o[3 * i + 3], c)}

C24_Measured ==
  /\ Called({"transitivity-equals"})
  /\ \A k \in 1..Len(CallPrereqs) : CallPrereqs[k].kind = "angle-equals-constant"

\* C24: 'transitivity-equals' over angle-equals-constant prerequisites
\* accepts an equality of two angles only if the prerequisites state one
\* measure for both angles.
C24_SameMeasure ==
  (C24_Measured /\ ret.ok) => C24_Measures(0) \cap C24_Measures(1) # {}

\* Accepted with both angles measured and no measure in common.
C24_DifferentMeasures ==
  /\ C24_Measured /\ ret.ok
  /\ C24_Measures(0) # {} /\ C24_Measures(1) # {}
  /\ C24_Measures(0) \cap C24_Measures(1) = {}

\* Accepted with a measure in common.
C24_AcceptedSame == C24_Measured /\ ret.ok /\ C24_Measures(0) \cap C24_Measures(1) # {}

\* Rejected: an angle of the outcome has no measure among the prerequisites.
C24_RejectedUnmeasured == C24_Measured /\ ~ret.threw /\ ~ret.ok /\ CallPrereqs # <<>>


\* The same with the measures left out: each angle of an accepted outcome is
\* the angle of some prerequisite.
C24_Named(i) ==
  LET o == call.step.outcome.pointNames
  IN \E k \in 1..Len(CallPrereqs) :
       /\ CallPrereqs[k].pointNames[2] = o[3 * i + 2]
       /\ {CallPrereqs[k].pointNames[1], CallPrereqs[k].pointNames[3]}
            = {o[3 * i + 1], o[3 * i + 3]}

C24_BothAnglesCited == (C24_Measured /\ ret.ok) => (C24_Named(0) /\ C24_Named(1))

-----------------------------------------------------------------------------
(* C25: sides that correspond under the stated vertex order *)

\* The outcome equates two sides that correspond under the vertex order in
\* which some congruence among prereqs is stated: vertices i and j of its
\* first triangle with vertices i and j of its second.
C25_Corresponding(outcome, prereqs) ==
  \E k \in 1..Len(prereqs) :
    /\ prereqs[k].kind = "triangles-congruent"
    /\ Len(prereqs[k].pointNames) >= 6
    /\ \E i, j \in 1..3 :
         /\ i # j
         /\ { {outcome.pointNames[1], outcome.pointNames[2]},
              {outcome.pointNames[3], outcome.pointNames[4]} }
              = { {prereqs[k].pointNames[i], prereqs[k].pointNames[j]},
                  {prereqs[k].pointNames[3 + i], prereqs[k].pointNames[3 + j]} }

\* C25: 'from-congruence' accepts only a pair of sides that correspond under
\* the vertex order stated by a cited congruence.
C25_OnlyCorrespondingSides ==
  (Called({"from-congruence"}) /\ ret.ok) => C25_Corresponding(call.step.outcome, CallPrereqs)

\* AM = AC accepted from the congruence of AMB and AMC alone.
C25_NotCorresponding ==
  /\ Called({"from-congruence"})
  /\ call.step.outcome = SES(<<"A", "M", "A", "C">>)
  /\ CallPrereqs = <<TC(<<"A", "M", "B", "A", "M", "C">>)>>
  /\ ret.ok

\* Corresponding sides are accepted.
C25_CorrespondingAccepted ==
  (/\ Called({"from-congruence"}) /\ ~ret.threw
   /\ call.step.outcome.kind = "segment-equals-segment"
   /\ Len(call.step.outcome.pointNames) >= 4
   /\ C25_Corresponding(call.step.outcome, CallPrereqs)) => ret.ok

-----------------------------------------------------------------------------
(* C26: outcomes as instances of the conclusion template *)

\* Line BM = line BC, which M on line BC justifies; the same with another
\* name in the third place; the line of another pair of points.
InstanceOutcomes ==
  { Stmt("line-equals-line", <<"B", "M", "B", "C">>),
    Stmt("line-equals-line", <<"B", "M", "A", "C">>),
    Stmt("line-equals-line", <<"B", "M", "M", "C">>),
    Stmt("line-equals-line", <<"A", "M", "A", "C">>),
    Stmt("unique-line", <<"B", "C">>), Stmt("unique-line", <<"B", "B">>),
    Stmt("rays-form-line", <<"B", "M", "C">>), Stmt("rays-form-line", <<"B", "M", "B">>) }

InitInstance == InitWith({KiteSnapshot}, GenericGivens, GenericPool)

NextInstance == VerifyStep(GenericReasonIds, InstanceOutcomes)

SpecInstance == InitInstance /\ [][NextInstance]_vars

\* Places of the template that hold one placeholder hold one name in names.
C26_Instance(template, names) ==
  /\ Len(names) = Len(template.pointNames)
  /\ \A i, j \in 1..Len(names) :
       template.pointNames[i] = template.pointNames[j] => names[i] = names[j]

\* C26: a generic template reason accepts an outcome only if the outcome is
\* an instance of the reason's conclusion template under a consistent
\* binding of the placeholders.
C26_OnlyInstances ==
  (Called(GenericReasonIds) /\ ret.ok) =>
    /\ call.step.outcome.kind = FindReason(call.step.reasonId).conclusion.kind
    /\ C26_Instance(FindReason(call.step.reasonId).conclusion, call.step.outcome.pointNames)

\* Line BM = line AC accepted by point-on-line-same-line.
C26_NotAnInstance ==
  /\ Called({"point-on-line-same-line"})
  /\ call.step.outcome = Stmt("line-equals-line", <<"B", "M", "A", "C">>)
  /\ ret.ok

-----------------------------------------------------------------------------
(* C27: the right angles of HL *)

\* In the kite the angles AMB and AMC are right angles; angle AMC is also
\* stated without a measure, which 'definition' accepts for any angle.
HlPool ==
  { ProofStep(AngleIs(<<"A", "M", "B">>, 90), REASON_DEFINITION, <<>>),
    ProofStep(AngleIs(<<"A", "M", "C">>, 90), REASON_DEFINITION, <<>>),
    ProofStep(Stmt("angle-equals-constant", <<"A", "M", "C">>), REASON_DEFINITION, <<>>) }

\* The hypotenuses and the common leg, and with them angle AMC as 45 degrees.
HlGivens ==
  { <<SES(<<"A", "B", "A", "C">>), SES(<<"A", "M", "A", "M">>)>>,
    <<SES(<<"A", "B", "A", "C">>), SES(<<"A", "M", "A", "M">>),
      AngleIs(<<"A", "M", "C">>, 45)>> }

HlOutcomes == { TC(<<"A", "M", "B", "A", "M", "C">>), TC(<<"A", "M", "B", "M", "A", "C">>) }

InitHl == InitWith({KiteSnapshot}, HlGivens, HlPool)

NextHl == VerifyStep({"hl"}, HlOutcomes)

SpecHl == InitHl /\ [][NextHl]_vars

\* Some prerequisite of the recorded call states that the angle named by
\* names measures 90 degrees.
C27_RightAngle(names) ==
  \E k \in 1..Len(CallPrereqs) : C24_States(CallPrereqs[k], names[1], names[2], names[3], 90)

\* C27: 'hl' accepts only if, for some ordering of the second triangle, the
\* prerequisites state with the constant 90 the angle of each triangle; a
\* statement with no constant or with another constant does not count.
C27_RightAnglesAre90 ==
  (Called({"hl"}) /\ ret.ok) =>
    \E q \in 1..Len(TRIANGLE_SECOND_PERMS) :
      /\ C27_RightAngle(Tri1(call.step.outcome.pointNames))
      /\ C27_RightAngle(Tri2(call.step.outcome.pointNames, TRIANGLE_SECOND_PERMS[q]))

\* Accepted with angle AMC stated only without a constant.
C27_NoConstant ==
  /\ Called({"hl"}) /\ ret.ok
  /\ \A k \in 1..Len(CallPrereqs) :
       CallPrereqs[k].kind = "angle-equals-constant" /\ CallPrereqs[k].pointNames[3] = "C"
         => CallPrereqs[k].constant = NoConstant

\* A prerequisite with another constant never counts as a right angle: an
\* accepted step has each of its two angles stated with 90 or no constant.
C27_Unmeasured(names) ==
  \E k \in 1..Len(CallPrereqs) :
    /\ CallPrereqs[k].kind = "angle-equals-constant"
    /\ CallPrereqs[k].pointNames[2] = names[2]
    /\ {CallPrereqs[k].pointNames[1], CallPrereqs[k].pointNames[3]} = {names[1], names[3]}
    /\ CallPrereqs[k].constant = NoConstant

C27_NinetyOrNone ==
  (Called({"hl"}) /\ ret.ok) =>
    \E q \in 1..Len(TRIANGLE_SECOND_PERMS) :
      /\ C27_RightAngle(Tri1(call.step.outcome.pointNames))
           \/ C27_Unmeasured(Tri1(call.step.outcome.pointNames))
      /\ C27_RightAngle(Tri2(call.step.outcome.pointNames, TRIANGLE_SECOND_PERMS[q]))
           \/ C27_Unmeasured(Tri2(call.step.outcome.pointNames, TRIANGLE_SECOND_PERMS[q]))

\* Rejected with angle AMC stated as 45 degrees only.
C27_RejectedOther ==
  /\ Called({"hl"}) /\ ~ret.threw /\ ~ret.ok
  /\ Len(CallPrereqs) = 4
  /\ \E k \in 1..4 : CallPrereqs[k] = AngleIs(<<"A", "M", "C">>, 45)
  /\ \E k \in 1..4 : CallPrereqs[k] = AngleIs(<<"A", "M", "B">>, 90)

\* Accepted with both angles stated as 90 degrees.
C27_AcceptedRight ==
  /\ Called({"hl"}) /\ ret.ok
  /\ \A k \in 1..Len(CallPrereqs) :
       CallPrereqs[k].kind = "angle-equals-constant" => CallPrereqs[k].constant = <<90>>

-----------------------------------------------------------------------------
(* C28: the order of the prerequisites and of the givens *)

OrderReasonIds ==
  {"sas", "asa", "aas", "sss", "hl", "from-congruence"} \cup GenericReasonIds

\* AB = AC, BC = CB and the congruence of AMB and AMC hold in the kite.
OrderPool ==
  { ProofStep(SES(<<"A", "B", "A", "C">>), REASON_DEFINITION, <<>>),
    ProofStep(SES(<<"B", "C", "C", "B">>), REASON_DEFINITION, <<>>),
    ProofStep(TC(<<"A", "M", "B", "A", "M", "C">>), REASON_DEFINITION, <<>>) }

OrderGivens ==
  { <<>>,
    <<AEA(<<"A", "B", "C", "A", "C", "B">>), Stmt("point-on-line", <<"M", "B", "C">>)>>,
    <<Stmt("points-distinct", <<"B", "C">>), SES(<<"C", "A", "B", "A">>)>> }

OrderOutcomes ==
  { TC(<<"A", "B", "C", "A", "C", "B">>), SES(<<"B", "M", "M", "C">>),
    Stmt("unique-line", <<"B", "C">>), Stmt("line-equals-line", <<"B", "M", "B", "C">>),
    Stmt("rays-form-line", <<"B", "M", "C">>) }

InitOrder == InitWith({KiteSnapshot}, OrderGivens, OrderPool)

NextOrder == VerifyStep(OrderReasonIds, OrderOutcomes)

SpecOrder == InitOrder /\ [][NextOrder]_vars

\* The reorderings of a list of n elements, and a list reordered.
Reorderings(n) == {f \in [1..n -> 1..n] : \A i, j \in 1..n : f[i] = f[j] => i = j}

Reordered(list, f) == [i \in 1..Len(list) |-> list[f[i]]]

\* Required premise i may be matched by prerequisite p.
C28_Matches(p, required, reasonId) ==
  /\ (reasonId = "hl" /\ required.kind = "angle-equals-constant") => angle90(p)
  /\ statementsEqualStructural(p, required)

\* Some one-to-one assignment of the required premises of some
\* correspondence to the resolved prerequisites exists.
C28_Assignable ==
  \E required \in C18_Required(call.step.reasonId, call.step.outcome.pointNames) :
    \E f \in [1..Len(required) -> 1..Len(CallPrereqs)] :
      /\ \A i, j \in 1..Len(required) : f[i] = f[j] => i = j
      /\ \A i \in 1..Len(required) :
           C28_Matches(CallPrereqs[f[i]], required[i], call.step.reasonId)

\* C28: for the congruence criteria, from-congruence and the three generic
\* template reasons the result of verifyStep is the same for every
\* reordering of prerequisiteRefs and of the task givens, and a congruence
\* criterion accepts whenever some one-to-one assignment of the required
\* premises to the resolved prerequisites exists.
C28_OrderInvariant ==
  Called(OrderReasonIds) =>
    /\ \A f \in Reorderings(Len(call.step.prerequisiteRefs)) :
         \A g \in Reorderings(Len(taskGivens)) :
           verifyStep(resolveContext(snapshot),
                      [call.step EXCEPT !.prerequisiteRefs = Reordered(@, f)],
                      proofSteps, Reordered(taskGivens, g)) = ret
    /\ (call.step.reasonId \in MatchReasonIds /\ CongruenceOutcome(call.step) /\ ~ret.threw)
         => (ret.ok <=> C28_Assignable)

\* sss accepted over three refs with two prerequisites that match the same
\* two premises, the givens cited between the steps.
C28_Witness ==
  /\ Called({"sss"})
  /\ ret.ok
  /\ call.step.prerequisiteRefs = <<Ref(1), GivenRef, Ref(2)>>
  /\ Len(taskGivens) = 2
  /\ Len(CallPrereqs) = 4

-----------------------------------------------------------------------------
(* C29: stored definition steps and the current construction *)

\* The stored step holds in the construction as it is now.
C29_HoldsNow(step) ==
  checkStatement(resolveContext(getPlaneStateSnapshot(state)), step.outcome)

\* C29: after any interleaving of construction edits and add-step attempts,
\* every stored step whose reason is 'definition' satisfies checkStatement
\* in the context resolved from the current construction snapshot.
C29_DefinitionsStayTrue ==
  \A i \in 1..Len(proofSteps) :
    proofSteps[i].reasonId = REASON_DEFINITION => C29_HoldsNow(proofSteps[i])

\* A definition step is stored and the construction has lost a point it names.
C29_Stale ==
  /\ Len(proofSteps) = 1
  /\ proofSteps[1].reasonId = REASON_DEFINITION
  /\ ~C29_HoldsNow(proofSteps[1])

\* Right after an accepted attempt the added definition step holds.
C29_TrueWhenAdded ==
  [][(call'.fn = "addStep" /\ Len(proofSteps') = Len(proofSteps) + 1
        /\ proofSteps'[Len(proofSteps')].reasonId = REASON_DEFINITION)
       => checkStatement(resolveContext(getPlaneStateSnapshot(state')),
                         proofSteps'[Len(proofSteps')].outcome)]_vars

-----------------------------------------------------------------------------
(* C30: displayed statements read back *)

\* The kinds whose written form the panel's hint lists.
HintKinds ==
  { "points-distinct", "point-on-line", "intersection-equals", "point-midpoint-of-segment",
    "angle-equals-constant", "angle-equals-angle", "segment-equals-segment",
    "triangles-congruent" }

\* C30: for every well-formed statement s over one-letter names of a kind
\* the parse hint lists, parseOutcomeStatement(statementToString(s)) returns
\* a statement with the kind, the point names and the constant of s.
C30_RoundTrip ==
  (call.fn = "parseShown" /\ call.s.kind \in HintKinds) => ret.value = <<call.s>>

\* 'C in line AB' read back as a point-on-line statement over other names.
C30_PointOnLine ==
  /\ call.fn = "parseShown"
  /\ call.s = Stmt("point-on-line", <<"C", "A", "B">>)
  /\ ret.value # <<>>
  /\ ret.value[1].kind = "point-on-line"
  /\ ret.value[1].pointNames # <<"C", "A", "B">>

\* The kinds of the hint other than point-on-line and intersection-equals
\* are read back as they were.
C30_RoundTripOthers ==
  (call.fn = "parseShown" /\ call.s.kind \in HintKinds
     /\ call.s.kind \notin {"point-on-line", "intersection-equals"})
    => ret.value = <<call.s>>

=============================================================================
